---- MODULE Spec2Model ----
(***************************************************************************)
(* Process/thread emulation layer of the WASIX runtime: deep sleep         *)
(* (unwind -> await -> rewind), proc_fork, thread_sleep, poll_oneoff and    *)
(* the host tasks (call_module, run) that re-enter a guest after a         *)
(* suspension.                                                             *)
(*                                                                         *)
(* A thread is identified with the pid of the process it was started for:  *)
(* thread 1 is the main thread started by spawn_exec_module and driven by  *)
(* call_module; every other thread is the child of a copy-mode proc_fork   *)
(* and is driven by run.                                                   *)
(***************************************************************************)
EXTENDS Integers, Sequences, FiniteSets, TLC

\* ------------------------------------------------------------------ bounds
MaxProcs == 2
MaxCalls == 2
StackLower == 1
StackSize == 5
HeapSize == 2
\* the longest subscription array passed to poll_oneoff
MaxSubs == 2
\* entries of an Imports that is built beforehand and of the contents of a
\* namespace
MaxEntries == 2
\* imports a module declares
MaxImports == 2
\* bits of an offset into guest memory (M::Offset as u64, usize) when the
\* arithmetic on the pid slot is taken on its own
OffsetBits == 3

\* ------------------------------------------------------- program constants
\* val_bytes.len(): the size of a Pid (u32) in bytes
PidBytes == 4
\* Duration::MAX, in nanoseconds: longer than any timeout a guest passes
DurationMAX == 2000000000
\* the poll interval of a deep sleep, Duration::from_millis(50), in nanoseconds
PollInterval == 50000000

StackUpper == StackLower + StackSize
MemSize == StackUpper + HeapSize

Threads == 1..MaxProcs
MainThread == CHOOSE t \in Threads : \A u \in Threads : t <= u
Widths == {32, 64}
\* the address width of the proc_fork import the guest calls
ForkWidths == {32}
Addrs == 0..(MemSize - 1)
\* pid_ptr offsets the guest may pass: below the stack, inside it, across
\* stack_upper, above it, and one that does not fit the linear memory
Offs == {0, StackLower, StackLower + 1, StackUpper - PidBytes + 1, StackUpper,
         MemSize - PidBytes + 1}
\* values of the guest's stack pointer at the time of a syscall: the whole
\* stack region captured, all but its lowest byte, nothing
SPs == {StackLower, StackLower + 1, StackUpper}
\* sleep durations (nanoseconds) the guest may pass
Durations == {0, 5}
RewindResults == {"Success", "Memviolation"}
GuestEnds == {"Ok", "ExitSuccess", "ExitFault", "UnknownWasiVersion", "RuntimeError"}

VARIABLES
    thread,    \* per thread: host task position, WasiEnv and guest registers
    mem,       \* per thread: the linear memory of its instance
    tasks,     \* per thread: what the task manager holds for it
    children,  \* per process: WasiProcess.inner.children
    vfork,     \* per thread: WasiEnv.vfork
    nproc,     \* pid seed of the control plane
    caps,      \* history: one record per unwind
    forks,     \* history: one record per forked process (by child pid)
    ncalls,    \* number of syscalls the guests have issued
    imports1,  \* Imports.map of the Imports the operations are called on
    registered,\* history: the keys ever inserted into imports1
    iret,      \* history: the last operation on imports1, its arguments and
               \* what it returned
    patch      \* the patch of the pid slot of a copying fork taken on its own:
               \* the offsets it is given and what comes of them

\* the variables of the Imports
ivars == <<imports1, registered, iret>>

\* the variables of the processes
wvars == <<thread, mem, tasks, children, vfork, nproc, caps, forks, ncalls>>

vars == <<thread, mem, tasks, children, vfork, nproc, caps, forks, ncalls,
          imports1, registered, iret, patch>>

\* --------------------------------------------------------------- encodings
\* u32::to_ne_bytes on a little-endian host
to_ne_bytes(v) == [i \in 1..PidBytes |-> (v \div (256 ^ (i - 1))) % 256]

RECURSIVE from_ne_bytes(_)
from_ne_bytes(b) ==
    IF b = <<>> THEN 0 ELSE b[1] + 256 * from_ne_bytes(Tail(b))

\* bytes [from, from + n) of a memory
ReadBytes(m, from, n) == [i \in 1..n |-> m[from + i - 1]]

\* memory m with the bytes b written at [at, at + Len(b))
WriteBytes(m, at, b) ==
    [a \in DOMAIN m |-> IF a >= at /\ a < at + Len(b) THEN b[a - at + 1] ELSE m[a]]

\* sequence s with the bytes b written at the 0-based index range [at, at + Len(b))
PatchSeq(s, at, b) ==
    [i \in 1..Len(s) |-> IF i > at /\ i <= at + Len(b) THEN b[i - at] ELSE s[i]]

\* ------------------------------------------------------------------ values
\* a cell of guest memory that has not been written
NoValue == 0 - 1

\* Option<Duration>::None
NoDuration == 0 - 1

\* a syscall with its arguments; subs is the subscription array at in_, ptrs
\* tells which of the pointers in_, out_ and nevents are valid
AllPtrs == [in_ |-> TRUE, out_ |-> TRUE, nevents |-> TRUE]
NoCall == [name |-> "none", copy |-> FALSE, off |-> 0, d |-> 0, w |-> 32,
           subs |-> <<>>, ptrs |-> AllPtrs]
SleepCall(d, w) == [NoCall EXCEPT !.name = "sleep", !.d = d, !.w = w]
ForkCall(copy, off, w) == [NoCall EXCEPT !.name = "fork", !.copy = copy, !.off = off,
                                          !.w = w]
PollCall(subs, ptrs, w) == [NoCall EXCEPT !.name = "poll", !.subs = subs, !.ptrs = ptrs,
                                          !.w = w]

\* the result callback of a deep sleep with what it captured
NoAfter == [kind |-> "none", clock_subs |-> <<>>, out_ |-> TRUE]

\* the future a deep sleep awaits
NoTrigger == [kind |-> "none", joins |-> <<>>]
InfiniteSleep == [kind |-> "InfiniteSleep", joins |-> <<>>]

NoRewind == [memory_stack |-> <<>>, rewind_stack |-> <<>>, store_data |-> <<>>,
             is_64bit |-> FALSE, after |-> NoAfter]

\* what the task manager holds for a thread: the task to run, or the respawn
\* closure (with its RewindState), the awaited future, its timeout and its
\* result
NoTask == [kind |-> "none", rewind |-> NoRewind, trigger |-> "none",
           timeout |-> NoDuration, joins |-> <<>>, evts |-> <<>>,
           ready |-> {}, order |-> <<>>, elapsed |-> NoDuration]

NoVFork == [set |-> FALSE, env |-> 0, rewind |-> NoRewind, pid_offset |-> 0]

NoError == [kind |-> "none", code |-> "Success", rewind |-> NoRewind,
            timeout |-> NoDuration, joins |-> <<>>]
ExitError(code) == [NoError EXCEPT !.kind = "Exit", !.code = code]

\* history: what completed the trigger of the last deep sleep of a thread and
\* the time, in nanoseconds, from the suspension to the completion
NoWoke == [by |-> "none", after |-> NoDuration]

\* where the host is inside a proc_fork that forked the environment ("pushed":
\* the child is among the parent's children and the write lock is released;
\* "unwound": proc_fork has returned to the engine with the unwind asked for;
\* "held": the closure of the unwind has handed the child's task to the task
\* manager), and what the later parts of the call use: the child's pid, the
\* snapshot of line 119 and the stacks the engine hands to the closure
NoForking == [at |-> "none", child |-> 0, snapshot |-> <<>>,
              memory_stack |-> <<>>, rewind_stack |-> <<>>]

\* history: the entry point an environment was spawned through, what it
\* returned and what became of the compiled module in the module cache, and
\* what try_built_in did with the environment
NoSpawn == [via |-> "none", res |-> "none", cache |-> "none", builtin |-> "none"]

\* the future of an entry point of the spawn path that holds the environment:
\* the entry point that was called, the await it is suspended at and what
\* became of the compiled module so far
NoFuture == [via |-> "none", at |-> "none", cache |-> "none"]

NoThread == [pc |-> "none", sp |-> 0, gpc |-> 0, call |-> NoCall, rewinding |-> FALSE,
             sig |-> FALSE, cur |-> 0, status |-> "none", finished |-> <<>>,
             cleanups |-> <<>>, log |-> <<>>, ret |-> "none", obs |-> 0,
             exit |-> "none", has_start |-> TRUE, M |-> 32, rcap |-> 0,
             poll_seed |-> 0, nevents |-> NoValue, events |-> <<>>,
             last |-> NoCall, guards |-> 0, woke |-> NoWoke, seed0 |-> 0,
             handle |-> "none", hclean |-> 0, spawn |-> NoSpawn,
             forking |-> NoForking, future |-> NoFuture]

NoFork == [parent |-> 0, copy |-> FALSE, off |-> 0, point |-> 0, cap |-> 0,
           captured |-> <<>>, spawned |-> FALSE, outcome |-> "none",
           pstack |-> <<>>, prstack |-> <<>>, pstore |-> <<>>, pmem |-> <<>>,
           tmem |-> <<>>,
           cstack |-> <<>>, crstack |-> <<>>, cstore |-> <<>>,
           pret |-> "none", pobs |-> 0, ppoint |-> 0,
           cret |-> "none", cobs |-> 0, cpoint |-> 0]

InitMem == [a \in Addrs |-> 16 + a]

World == [thread |-> thread, mem |-> mem, tasks |-> tasks, children |-> children,
          vfork |-> vfork, nproc |-> nproc, caps |-> caps, forks |-> forks]

Becomes(w) ==
    /\ thread' = w.thread
    /\ mem' = w.mem
    /\ tasks' = w.tasks
    /\ children' = w.children
    /\ vfork' = w.vfork
    /\ nproc' = w.nproc
    /\ caps' = w.caps
    /\ forks' = w.forks
    /\ UNCHANGED ivars
    /\ UNCHANGED patch

Range(s) == {s[i] : i \in DOMAIN s}

Logged(w, t, ev) == [w EXCEPT !.thread[t].log = Append(@, ev)]

\* ------------------------------------------------ engine (capture / rewind)
\* WasiEnv::process_signals_and_exit: a pending termination signal ends the
\* guest with WasiError::Exit(Errno::Intr)
process_signals_and_exit(w, t) == w.thread[t].sig

\* handle_rewind: TRUE exactly when the syscall is re-entered by a rewind
handle_rewind(w, t) == w.thread[t].rewinding

\* the rewind marker is taken by handle_rewind, the syscall returns errno to
\* the guest, which goes on to its next program point; of the host task's
\* history only the entry into the guest is kept
SyscallReturn(w, t, errno) ==
    [w EXCEPT !.thread[t].rewinding = FALSE,
              !.thread[t].call = NoCall,
              !.thread[t].log = <<<<"start">>>>,
              !.thread[t].ret = errno,
              !.thread[t].forking = NoForking,
              !.thread[t].gpc = @ + 1]

\* capture_snapshot(..).serialize(): the store's globals (the stack pointer)
capture_snapshot(w, t) == <<w.thread[t].sp>>

\* the operand stack unwind captures: memory from the stack pointer up to
\* stack_upper
get_memory_stack(w, t) ==
    ReadBytes(w.mem[t], w.thread[t].sp, StackUpper - w.thread[t].sp)

\* the continuation unwind captures: the capture's identity, the guest's
\* program point and the call it is suspended in
get_rewind_stack(w, t) == <<Len(w.caps) + 1, w.thread[t].gpc, w.thread[t].call>>

NoRewinds == [u \in Threads |-> 0]

\* unwind: records the capture
unwind(w, t, origin) ==
    [w EXCEPT !.caps = Append(@, [origin |-> origin, owner |-> t,
                                  rewinds |-> NoRewinds, respawns |-> 0,
                                  handed |-> FALSE])]

\* set_memory_stack: the memory stack goes back below stack_upper
set_memory_stack(m, memory_stack) ==
    WriteBytes(m, StackUpper - Len(memory_stack), memory_stack)

\* the Errno rewind::<M> returns: a stack unwound under the other address
\* width is refused as invalid, otherwise r, the code of the snapshot codec
\* and of the stack bounds check
rewind_errno(M, rewind_stack, r) ==
    IF rewind_stack[3].w # M THEN "Inval" ELSE r

\* rewind::<M>: restores the snapshot and the stacks and marks the thread as
\* rewinding; r is the code the codec and the bounds checks produce
rewind(w, t, M, memory_stack, rewind_stack, store_data, r) ==
    LET c == rewind_stack[1]
        res == rewind_errno(M, rewind_stack, r)
        w1 == [Logged(w, t, <<"rewind", M, res>>)
                 EXCEPT !.caps[c].rewinds[t] = @ + 1,
                        !.thread[t].rcap = c]
    IN IF res # "Success" THEN w1
       ELSE [w1 EXCEPT !.mem[t] = set_memory_stack(@, memory_stack),
                       !.thread[t].sp = store_data[1],
                       !.thread[t].gpc = rewind_stack[2],
                       !.thread[t].call = rewind_stack[3],
                       !.thread[t].rewinding = TRUE]

\* poll_oneoff.rs lines 52-65: process_events, the closure of poll_oneoff
\* that writes the events at out_ and their number at nevents
process_events(w, t, out_ok, triggered_events) ==
    IF ~out_ok THEN w
    ELSE [w EXCEPT !.thread[t].events =
                       triggered_events
                       \o SubSeq(@, Len(triggered_events) + 1, Len(@)),
                   !.thread[t].nevents = Len(triggered_events)]

\* the clock events of lines 341-357
clock_events(clock_subs) ==
    [i \in 1..Len(clock_subs) |->
        [userdata |-> clock_subs[i].userdata, error |-> "Success", type |-> "Clock"]]

\* the result callback with Errno::Again handled as Errno::Timedout is
poll_oneoff_after_again_as_timeout(w, t, after, res) ==
    CASE res.kind = "ready" -> process_events(w, t, after.out_, res.evts)
      [] res.kind \in {"timeout", "again"} ->
           process_events(w, t, after.out_, clock_events(after.clock_subs))
      [] OTHER -> w

\* poll_oneoff.rs lines 325-370: the result callback of poll_oneoff_internal
poll_oneoff_after(w, t, after, res) ==
    CASE res.kind = "ready" -> process_events(w, t, after.out_, res.evts)
      [] res.kind = "timeout" ->
           process_events(w, t, after.out_, clock_events(after.clock_subs))
      [] res.kind = "again" -> process_events(w, t, after.out_, <<>>)
      [] OTHER -> w

\* RewindState::rewinding_finish::<M>: runs the result callback of the
\* suspended syscall (thread_sleep.rs line 50 does nothing) on the result of
\* the trigger; f is Ok or the exit code the finish fails with
rewinding_finish(w, t, M, rs, res, f) ==
    LET w1 == Logged(w, t, <<"finish", M, f>>)
    IN IF f = "Ok" /\ rs.after.kind = "poll"
       THEN poll_oneoff_after(w1, t, rs.after, res)
       ELSE w1

\* WasiEnv::cleanup / blocking_cleanup
cleanup(w, t, code) == [w EXCEPT !.thread[t].cleanups = Append(@, code)]

Live(w, t) == w.thread[t].pc \in {"spawned", "guest", "asleep"}

RetiredCap == [origin |-> "retired", owner |-> 0, rewinds |-> NoRewinds,
               respawns |-> 0, handed |-> FALSE]

\* history is kept for as long as a thread that took part in it is alive
Retire(w) ==
    [w EXCEPT !.forks = [k \in Threads |->
                           IF @[k].parent # 0 /\ ~Live(w, @[k].parent) /\ ~Live(w, k)
                           THEN NoFork ELSE @[k]],
              !.caps = [c \in DOMAIN @ |->
                          IF /\ @[c].owner # 0
                             /\ ~Live(w, @[c].owner)
                             /\ \A k \in Threads :
                                   \/ ~Live(w, k)
                                   \/ /\ w.thread[k].rcap # c
                                      /\ \/ w.tasks[k].kind = "none"
                                         \/ w.tasks[k].rewind.rewind_stack[1] # c
                          THEN RetiredCap ELSE @[c]]]

\* the store is dropped with the host task that owned it: the instance, its
\* memory, its globals and its WasiEnv are gone, and so is the thread handle
\* the task held (hclean: the cleanups made by then)
Dropped(w, t, pc) ==
    Retire([w EXCEPT !.thread[t].pc = pc, !.thread[t].sp = 0, !.thread[t].gpc = 0,
                     !.thread[t].call = NoCall, !.thread[t].rewinding = FALSE,
                     !.thread[t].ret = "none", !.thread[t].obs = 0,
                     !.thread[t].rcap = 0,
                     !.thread[t].poll_seed = 0,
                     !.thread[t].nevents = NoValue, !.thread[t].events = <<>>,
                     !.thread[t].last = NoCall, !.thread[t].guards = 0,
                     !.thread[t].woke = NoWoke, !.thread[t].seed0 = 0,
                     !.thread[t].handle = "dropped",
                     !.thread[t].hclean = Len(w.thread[t].cleanups),
                     !.thread[t].forking = NoForking,
                     !.thread[t].future = NoFuture,
                     !.mem[t] = InitMem,
                     !.vfork[t] = NoVFork])

\* the host task returns for good
Returned(w, t) == Dropped(w, t, "done")

\* tasks.resume_wasm_after_poller(respawn, ctx, store, trigger): the task
\* manager keeps the respawn closure (with its RewindState) and the trigger,
\* or rejects them
resume_wasm_after_poller(w, t, deep, acc) ==
    IF acc
    THEN [w EXCEPT !.tasks[t] = [kind |-> "poller", rewind |-> deep.rewind,
                                 trigger |-> "pending", timeout |-> deep.timeout,
                                 joins |-> deep.joins, evts |-> <<>>,
                                 ready |-> {}, order |-> <<>>,
                                 elapsed |-> NoDuration],
                   !.caps[deep.rewind.rewind_stack[1]].handed = TRUE,
                   !.thread[t].handle = "respawn",
                   !.thread[t].pc = "asleep"]
    ELSE Dropped(w, t, "lost")

\* history: the exit code of the WasiError::Exit that ended the guest run
ExitOf(err) == IF err.kind = "Exit" THEN err.code ELSE "none"

\* an entry point returns Err(err): its future is gone, what it returned is
\* kept and the environment it was passed is dropped
SpawnErr(w, t, err) ==
    Dropped([w EXCEPT !.thread[t].spawn = [@ EXCEPT !.via = w.thread[t].future.via,
                                                    !.res = err,
                                                    !.cache = w.thread[t].future.cache],
                      !.thread[t].future = NoFuture],
            t, "failed")

\* lines 72-145: spawn_exec_module hands the task that runs the module to the
\* task manager, which takes it (launch) or refuses it
spawn_exec_module(w, t, in) ==
    IF in.launch
    THEN [w EXCEPT !.tasks[t] = [NoTask EXCEPT !.kind = "wasm"],
                   !.thread[t].pc = "spawned",
                   !.thread[t].handle = "task",
                   !.thread[t].spawn = [@ EXCEPT !.via = w.thread[t].future.via,
                                                 !.res = "Ok",
                                                 !.cache = w.thread[t].future.cache],
                   !.thread[t].future = NoFuture]
    ELSE SpawnErr(w, t, "UnknownError")

\* lines 18-70: the future of spawn_exec polled once; it runs from where it
\* stands to its next await or to its end: from the start to the await of
\* compiled_modules.load (28), from the answer of load to the await of
\* compiled_modules.save (47) or to a return, from the answer of save to the
\* return of spawn_exec_module
spawn_exec(w, t, in) ==
    LET at == w.thread[t].future.at
    IN IF at = "load"
       THEN IF in.cached
            THEN spawn_exec_module([w EXCEPT !.thread[t].future.cache = "hit"], t, in)
            ELSE IF in.entry
            THEN IF ~in.compiles
                 THEN SpawnErr(cleanup(w, t, "Noexec"), t, "CompileError")
                 ELSE [w EXCEPT !.thread[t].future.at = "save"]
            ELSE SpawnErr(cleanup(w, t, "Noexec"), t, "CompileError")
       ELSE IF at = "save"
       THEN spawn_exec_module([w EXCEPT !.thread[t].future.cache =
                                            IF in.saves THEN "saved" ELSE "unsaved"],
                              t, in)
       ELSE [w EXCEPT !.thread[t].future.at = "load"]

\* lines 272-292: the future of BinFactory::spawn polled once: from the start
\* to the await of get_binary (282), from the answer of get_binary to the
\* await of env.cleanup (285) or into spawn_exec (290), from the end of
\* env.cleanup to the return of NotFound, and on inside spawn_exec
BinFactory_spawn(w, t, in) ==
    LET at == w.thread[t].future.at
    IN IF at = "none" THEN [w EXCEPT !.thread[t].future.at = "get_binary"]
       ELSE IF at = "get_binary"
       THEN IF ~in.found THEN [w EXCEPT !.thread[t].future.at = "cleanup"]
            ELSE spawn_exec(w, t, in)
       ELSE IF at = "cleanup"
       THEN SpawnErr(cleanup(w, t, "Noent"), t, "NotFound")
       ELSE spawn_exec(w, t, in)

\* ------------------------------------------------------ exec.rs call_module
\* lines 209-218: get_start and start.call
call_module_start(w, t) ==
    IF w.thread[t].has_start
    THEN [Logged(w, t, <<"start">>) EXCEPT !.thread[t].pc = "guest"]
    ELSE Returned(cleanup(w, t, "Noexec"), t)

\* call_module_rewind with rewind invoked ahead of the result callback
call_module_rewind_swapped(w, t, M, rs, res, in) ==
    LET w1 == rewind(w, t, M, rs.memory_stack, rs.rewind_stack, rs.store_data, in.r)
        res2 == rewind_errno(M, rs.rewind_stack, in.r)
    IN IF res2 # "Success" THEN Returned(cleanup(w1, t, res2), t)
       ELSE LET w2 == rewinding_finish(w1, t, M, rs, res, in.f)
            IN IF in.f # "Ok" THEN Returned(cleanup(w2, t, in.f), t)
               ELSE call_module_start(w2, t)

\* call_module_rewind with the captured stack rewound a second time
call_module_rewind_twice(w, t, M, rs, res, in) ==
    LET w1 == rewinding_finish(w, t, M, rs, res, in.f)
    IN IF in.f # "Ok" THEN Returned(cleanup(w1, t, in.f), t)
       ELSE LET w2 == rewind(w1, t, M, rs.memory_stack, rs.rewind_stack,
                             rs.store_data, in.r)
                w3 == rewind(w2, t, M, rs.memory_stack, rs.rewind_stack,
                             rs.store_data, in.r)
                res2 == rewind_errno(M, rs.rewind_stack, in.r)
            IN IF res2 # "Success" THEN Returned(cleanup(w3, t, res2), t)
               ELSE call_module_start(w3, t)

\* lines 172-187 and 189-204: one width's branch of the rewind on resume
call_module_rewind(w, t, M, rs, res, in) ==
    LET w1 == rewinding_finish(w, t, M, rs, res, in.f)
    IN IF in.f # "Ok" THEN Returned(cleanup(w1, t, in.f), t)
       ELSE LET w2 == rewind(w1, t, M, rs.memory_stack, rs.rewind_stack,
                             rs.store_data, in.r)
                res2 == rewind_errno(M, rs.rewind_stack, in.r)
            IN IF res2 # "Success" THEN Returned(cleanup(w2, t, res2), t)
               ELSE call_module_start(w2, t)

\* lines 164-218: call_module up to the call of the guest; some = FALSE is
\* rewind_state = None
call_module(w, t, some, rs, res, in) ==
    LET w0 == [w EXCEPT !.thread[t].status = "Running"]
    IN IF some
       THEN IF rs.is_64bit THEN call_module_rewind(w0, t, 64, rs, res, in)
            ELSE call_module_rewind(w0, t, 32, rs, res, in)
       ELSE call_module_start(w0, t)

\* call_module_leave with a DeepSleep answered by calling the module again on
\* the spot, without the task manager
call_module_leave_direct(w, t, err, in) ==
    IF err.kind = "DeepSleep"
    THEN call_module(w, t, TRUE, err.rewind, "none", in)
    ELSE Returned(cleanup(w, t, "Success"), t)

\* lines 220-268: call_module from the return of the guest
call_module_leave(w, t, err, in) ==
    LET w0 == [w EXCEPT !.thread[t].exit = ExitOf(err)]
    IN IF err.kind = "DeepSleep"
       THEN resume_wasm_after_poller(w0, t, err, in.acc)
       ELSE LET ret == CASE err.kind = "Ok" -> <<"Ok", "Success">>
                         [] err.kind = "Exit" ->
                              IF err.code = "Success" THEN <<"Ok", "Success">>
                              ELSE <<"Ok", "Noexec">>
                         [] err.kind = "UnknownWasiVersion" -> <<"Ok", "Noexec">>
                         [] OTHER -> <<"Err", "RuntimeError">>
                code == IF ret[1] = "Err" THEN "Noexec" ELSE "Success"
            IN [Returned(cleanup(w0, t, code), t)
                  EXCEPT !.thread[t].status = "Finished",
                         !.thread[t].finished = Append(@, ret)]

\* ------------------------------------------------------- proc_fork.rs run
\* lines 249-279: run up to the call of the guest
run(w, t, M, some, rs, res, in) ==
    LET w0 == w
    IN IF some
       THEN LET w1 == rewinding_finish(w0, t, M, rs, res, in.f)
            IN IF in.f # "Ok" THEN Returned(w1, t)
               ELSE LET w2 == rewind(w1, t, M, rs.memory_stack, rs.rewind_stack,
                                     rs.store_data, in.r)
                        res2 == rewind_errno(M, rs.rewind_stack, in.r)
                    IN IF res2 # "Success" THEN Returned(w2, t)
                       ELSE [Logged(w2, t, <<"start">>) EXCEPT !.thread[t].pc = "guest"]
       ELSE [Logged(w0, t, <<"start">>) EXCEPT !.thread[t].pc = "guest"]

\* lines 280-311: run from the return of the guest
run_leave(w, t, err, in) ==
    LET w0 == [w EXCEPT !.thread[t].exit = ExitOf(err)]
    IN IF err.kind = "DeepSleep"
       THEN resume_wasm_after_poller(w0, t, err, in.acc)
       ELSE LET ret == IF err.kind = "Exit" THEN err.code ELSE "Success"
            IN Returned(cleanup(w0, t, ret), t)

\* the error that ends start.call reaches the host task that called it
GuestTrap(w, t, err, in) ==
    IF t = MainThread THEN call_module_leave(w, t, err, in)
    ELSE run_leave(w, t, err, in)

\* ------------------------------------------------- deep sleep (scheduler)
\* __asyncify_with_deep_sleep_ext::<M>(ctx, timeout, _, trigger, after):
\* unwinds and ends the guest run with WasiError::DeepSleep carrying the
\* RewindState (with the result callback) and the trigger
asyncify_with_deep_sleep_ext(w, t, M, timeout, trigger, after, in) ==
    LET deep == [kind |-> "DeepSleep", code |-> "Success",
                 rewind |-> [memory_stack |-> get_memory_stack(w, t),
                             rewind_stack |-> get_rewind_stack(w, t),
                             store_data |-> capture_snapshot(w, t),
                             is_64bit |-> (M = 64),
                             after |-> after],
                 timeout |-> timeout, joins |-> trigger.joins]
    IN GuestTrap(unwind(w, t, after.kind), t, deep, in)

\* -------------------------------------------- thread_sleep.rs (lines 18-54)
\* thread_sleep_internal with the rewind handled ahead of the signals
thread_sleep_internal_rewind_first(w, t, duration, M, in) ==
    IF handle_rewind(w, t) THEN SyscallReturn(w, t, "Success")
    ELSE IF process_signals_and_exit(w, t) THEN GuestTrap(w, t, ExitError("Intr"), in)
    ELSE IF duration > 0
         THEN asyncify_with_deep_sleep_ext(w, t, M, duration, InfiniteSleep,
                                           [NoAfter EXCEPT !.kind = "sleep"], in)
         ELSE SyscallReturn(w, t, "Success")

\* thread_sleep_internal with a timeout one nanosecond short of the duration
thread_sleep_internal_short(w, t, duration, M, in) ==
    IF process_signals_and_exit(w, t) THEN GuestTrap(w, t, ExitError("Intr"), in)
    ELSE IF handle_rewind(w, t) THEN SyscallReturn(w, t, "Success")
    ELSE IF duration > 0
         THEN asyncify_with_deep_sleep_ext(w, t, M, duration - 1, InfiniteSleep,
                                           [NoAfter EXCEPT !.kind = "sleep"], in)
         ELSE SyscallReturn(w, t, "Success")

thread_sleep_internal(w, t, duration, M, in) ==
    IF process_signals_and_exit(w, t) THEN GuestTrap(w, t, ExitError("Intr"), in)
    ELSE IF handle_rewind(w, t) THEN SyscallReturn(w, t, "Success")
    ELSE IF duration > 0
         THEN asyncify_with_deep_sleep_ext(w, t, M, duration, InfiniteSleep,
                                           [NoAfter EXCEPT !.kind = "sleep"], in)
         ELSE SyscallReturn(w, t, "Success")

\* ------------------------------------------------------------ poll_oneoff.rs
\* the file descriptors of state.fs: 0, 1 and 2 are the standard streams, 3 is
\* a file with the right to poll, 4 a file without it, 5 a directory (no poll
\* guard can be made for it); any other fd is not open
StdFds == {0, 1, 2}
OpenFds == 0..5
HasPollRight(fd) == fd # 4
HasPollGuard(fd) == fd # 5
NoFd == 0 - 1

\* wasi Subscription records
FdSub(type, fd, userdata) ==
    [type |-> type, fd |-> fd, clock_id |-> "none", timeout |-> 0, userdata |-> userdata]
ClockSub(clock_id, timeout, userdata) ==
    [type |-> "Clock", fd |-> NoFd, clock_id |-> clock_id, timeout |-> timeout,
     userdata |-> userdata]

\* lines 40-46: the subscriptions read from the array, starting at poll_seed
read_subscriptions(subscription_array, poll_seed) ==
    [n \in 1..Len(subscription_array) |->
        [fd |-> NoFd, peb |-> {},
         s |-> subscription_array[((n - 1 + poll_seed) % Len(subscription_array)) + 1]]]

\* check_fd without the check of the rights
check_fd_rights_unchecked(file_descriptor) ==
    IF file_descriptor \in StdFds THEN "Success"
    ELSE IF file_descriptor \notin OpenFds THEN "Badf"
    ELSE "Success"

\* lines 175-186 and 193-204: the fd of an fd subscription is looked up and
\* its rights are checked, unless it is a standard stream
check_fd(file_descriptor) ==
    IF file_descriptor \in StdFds THEN "Success"
    ELSE IF file_descriptor \notin OpenFds THEN "Badf"
    ELSE IF ~HasPollRight(file_descriptor) THEN "Access"
    ELSE "Success"

\* every clock id taken as supported
clock_supported_any(clock_id) == TRUE

\* lines 211-212: the clock ids a subscription may name
clock_supported(clock_id) == clock_id \in {"Realtime", "Monotonic"}

\* no clock subscription taken as a duplicate
clock_seen_never(clock_subs, s) == FALSE

\* lines 215-218: a clock subscription with this clock id and userdata has
\* been kept already
clock_seen(clock_subs, s) ==
    \E k \in 1..Len(clock_subs) :
        /\ clock_subs[k].clock_id = s.clock_id
        /\ clock_subs[k].userdata = s.userdata

\* the timeout of a clock subscription taken as it is
clock_time_to_sleep_plain(timeout) == timeout

\* lines 224-230: the time to sleep a clock subscription asks for; the
\* timeout 0 stands for no timeout and 1 for an immediate poll
clock_time_to_sleep(timeout) ==
    IF timeout = 0 THEN DurationMAX
    ELSE IF timeout = 1 THEN 0
    ELSE timeout

\* lines 171-239: the loop over the subscriptions; st holds subs, clock_subs,
\* time_to_sleep and the errno the loop returns with
RECURSIVE extract_subs(_, _)
extract_subs(st, i) ==
    IF i > Len(st.subs) \/ st.err # "Success" THEN st
    ELSE LET s == st.subs[i].s
         IN CASE s.type = "FdRead" ->
                   IF check_fd(s.fd) # "Success" THEN [st EXCEPT !.err = check_fd(s.fd)]
                   ELSE extract_subs([st EXCEPT !.subs[i].fd = s.fd,
                                                !.subs[i].peb = @ \cup {"PollIn"}], i + 1)
              [] s.type = "FdWrite" ->
                   IF check_fd(s.fd) # "Success" THEN [st EXCEPT !.err = check_fd(s.fd)]
                   ELSE extract_subs([st EXCEPT !.subs[i].fd = s.fd,
                                                !.subs[i].peb = @ \cup {"PollOut"}], i + 1)
              [] OTHER ->
                   IF clock_supported(s.clock_id)
                   THEN IF clock_seen(st.clock_subs, s)
                        THEN extract_subs(st, i + 1)
                        ELSE IF s.timeout = 0 \/ s.timeout = 1
                        THEN extract_subs(
                                 [st EXCEPT !.time_to_sleep = clock_time_to_sleep(s.timeout)],
                                 i + 1)
                        ELSE extract_subs(
                                 [st EXCEPT !.time_to_sleep = clock_time_to_sleep(s.timeout),
                                            !.clock_subs = Append(@, s)], i + 1)
                   ELSE [st EXCEPT !.err = "Inval"]

\* the poll guards with a batch limit of one guard: the subscriptions after
\* the first that has an fd get no guard
RECURSIVE build_guards_limited(_, _, _)
build_guards_limited(subs, i, st) ==
    IF i > Len(subs) \/ st.err # "Success" THEN st
    ELSE IF subs[i].fd = NoFd THEN build_guards_limited(subs, i + 1, st)
    ELSE LET fd == subs[i].fd
             guard == [fd |-> fd, peb |-> subs[i].peb, s |-> subs[i].s]
             pushed == IF st.fd_guards = <<>>
                       THEN [st EXCEPT !.fd_guards = Append(@, guard)]
                       ELSE st
         IN IF fd \in {1, 2} THEN build_guards_limited(subs, i + 1, pushed)
            ELSE IF fd \notin OpenFds THEN [st EXCEPT !.err = "Badf"]
            ELSE IF ~HasPollRight(fd) THEN [st EXCEPT !.err = "Access"]
            ELSE IF ~HasPollGuard(fd) THEN [st EXCEPT !.err = "Badf"]
            ELSE build_guards_limited(subs, i + 1, pushed)

\* lines 250-297: the poll guards of the subscriptions that have an fd
RECURSIVE build_guards(_, _, _)
build_guards(subs, i, st) ==
    IF i > Len(subs) \/ st.err # "Success" THEN st
    ELSE IF subs[i].fd = NoFd THEN build_guards(subs, i + 1, st)
    ELSE LET fd == subs[i].fd
             guard == [fd |-> fd, peb |-> subs[i].peb, s |-> subs[i].s]
             pushed == [st EXCEPT !.fd_guards = Append(@, guard)]
         IN IF fd \in {1, 2} THEN build_guards(subs, i + 1, pushed)
            ELSE IF fd \notin OpenFds THEN [st EXCEPT !.err = "Badf"]
            ELSE IF ~HasPollRight(fd) THEN [st EXCEPT !.err = "Access"]
            ELSE IF ~HasPollGuard(fd) THEN [st EXCEPT !.err = "Badf"]
            ELSE build_guards(subs, i + 1, pushed)

\* asyncify_time with a zero time to sleep taken for no timeout
asyncify_time_zero_as_none(time_to_sleep) ==
    IF time_to_sleep = DurationMAX \/ time_to_sleep = 0 THEN NoDuration ELSE time_to_sleep

\* lines 304-317
asyncify_time(time_to_sleep) ==
    IF time_to_sleep = DurationMAX THEN NoDuration ELSE time_to_sleep

\* lines 139-373
poll_oneoff_internal(w, t, subs, out_ok, M, in) ==
    IF process_signals_and_exit(w, t) THEN GuestTrap(w, t, ExitError("Intr"), in)
    ELSE IF handle_rewind(w, t) THEN SyscallReturn(w, t, "Success")
    ELSE LET ex == extract_subs([subs |-> subs, clock_subs |-> <<>>,
                                 time_to_sleep |-> DurationMAX, err |-> "Success"], 1)
             gs == build_guards(ex.subs, 1, [fd_guards |-> <<>>, err |-> "Success"])
             w1 == [w EXCEPT !.thread[t].guards = Len(gs.fd_guards)]
         IN IF ex.err # "Success" THEN SyscallReturn(w, t, ex.err)
            ELSE IF gs.err # "Success" THEN SyscallReturn(w1, t, gs.err)
            ELSE asyncify_with_deep_sleep_ext(
                     w1, t, M, asyncify_time(ex.time_to_sleep),
                     [kind |-> "PollBatch", joins |-> gs.fd_guards],
                     [kind |-> "poll", clock_subs |-> ex.clock_subs, out_ |-> out_ok], in)

\* lines 26-69
poll_oneoff(w, t, subscription_array, ptrs, M, in) ==
    IF process_signals_and_exit(w, t) THEN GuestTrap(w, t, ExitError("Intr"), in)
    ELSE LET w1 == [w EXCEPT !.thread[t].poll_seed = @ + 1]
         IN IF ~ptrs.in_ THEN SyscallReturn(w1, t, "Memviolation")
            ELSE IF ~ptrs.nevents THEN SyscallReturn(w1, t, "Memviolation")
            ELSE poll_oneoff_internal(
                     [w1 EXCEPT !.thread[t].nevents = 0], t,
                     read_subscriptions(subscription_array, w1.thread[t].poll_seed),
                     ptrs.out_, M, in)

\* PollBatch::poll resolving with the events of the first ready guard only
RECURSIVE PollBatch_poll_first(_, _)
PollBatch_poll_first(joins, ready) ==
    IF joins = <<>> THEN <<>>
    ELSE IF Head(joins).fd \in ready
         THEN <<[userdata |-> Head(joins).s.userdata, error |-> "Success",
                 type |-> Head(joins).s.type]>>
         ELSE PollBatch_poll_first(Tail(joins), ready)

\* lines 92-124: PollBatch::poll, with ready the fds whose guards are ready;
\* the events of all ready guards in the order of the joins
RECURSIVE PollBatch_poll(_, _)
PollBatch_poll(joins, ready) ==
    IF joins = <<>> THEN <<>>
    ELSE (IF Head(joins).fd \in ready
          THEN <<[userdata |-> Head(joins).s.userdata, error |-> "Success",
                  type |-> Head(joins).s.type]>>
          ELSE <<>>) \o PollBatch_poll(Tail(joins), ready)

\* ------------------------------------------------------------ proc_fork.rs
\* lines 201-202: the pid slot lies inside the stack region
pid_in_stack(pid_offset) ==
    pid_offset >= StackLower /\ pid_offset + PidBytes <= StackUpper

\* pid_in_active without the comparison with the captured length
pid_in_active_unchecked(pid_offset, memory_stack) == TRUE

\* lines 205-206: the pid slot lies inside the captured (active) part
pid_in_active(pid_offset, memory_stack) ==
    ~((StackUpper - pid_offset) > Len(memory_stack))

\* patch_memory_stack that leaves the memory stack as captured
patch_memory_stack_skipped(memory_stack, pid_offset, child_pid) == memory_stack

\* patch_memory_stack that writes one byte above the slot
patch_memory_stack_shifted(memory_stack, pid_offset, child_pid) ==
    LET offset == StackUpper - pid_offset
        pstart == Len(memory_stack) - offset
    IN PatchSeq(memory_stack, pstart + 1, to_ne_bytes(child_pid))

\* lines 215-219: the child's pid written over the slot in the memory stack
patch_memory_stack(memory_stack, pid_offset, child_pid) ==
    LET offset == StackUpper - pid_offset
        pstart == Len(memory_stack) - offset
    IN PatchSeq(memory_stack, pstart, to_ne_bytes(child_pid))

\* the arithmetic of lines 61 and 196-219 on its own, for any layout: offsets
\* are unsigned integers of OffsetBits bits and + and - wrap around
OffsetMAX == 2 ^ OffsetBits - 1
Wrap(x) == x % (2 ^ OffsetBits)

\* line 61: pid_ptr.write succeeds when the slot is inside the linear memory
\* (the bounds check of WasmPtr does not wrap)
pid_write_ok(pid_offset, memory_size) == pid_offset + PidBytes <= memory_size

\* pid_in_layout without the comparison with stack_upper
pid_in_layout_lower_only(pid_offset, stack_lower, stack_upper) ==
    pid_offset >= stack_lower

\* lines 201-202
pid_in_layout(pid_offset, stack_lower, stack_upper) ==
    pid_offset >= stack_lower /\ Wrap(pid_offset + PidBytes) <= stack_upper

\* lines 205, 216-217: offset, pstart and pend
patch_range(pid_offset, stack_upper, len) ==
    LET offset == Wrap(stack_upper - pid_offset)
        pstart == Wrap(len - offset)
        pend == Wrap(pstart + PidBytes)
    IN [offset |-> offset, pstart |-> pstart, pend |-> pend]

\* lines 61 and 196-225: what becomes of the pid slot; a range that is not
\* inside the memory stack makes the slice of line 218 panic
patch_pid(pid_offset, stack_lower, stack_upper, len, memory_size) ==
    LET r == patch_range(pid_offset, stack_upper, len)
        none == [offset |-> 0, pstart |-> 0, pend |-> 0]
    IN IF ~pid_write_ok(pid_offset, memory_size) THEN [out |-> "Memviolation", r |-> none]
       ELSE IF pid_in_layout(pid_offset, stack_lower, stack_upper)
       THEN IF r.offset > len THEN [out |-> "trap", r |-> [none EXCEPT !.offset = r.offset]]
            ELSE IF r.pstart > r.pend \/ r.pend > len THEN [out |-> "panic", r |-> r]
            ELSE [out |-> "patched", r |-> r]
       ELSE [out |-> "trap", r |-> none]

\* history: what the guest sees when proc_fork returns after a rewind
ForkObserved(w, t, ret_pid) ==
    LET ks == {k \in Threads : w.forks[k].cap = w.thread[t].rcap /\ w.forks[k].cap # 0}
    IN IF ks = {} THEN w
       ELSE LET k == CHOOSE k \in ks : TRUE
            IN IF w.thread[t].cur = k
               THEN [w EXCEPT !.forks[k].cret = "Success", !.forks[k].cobs = ret_pid,
                              !.forks[k].cpoint = w.thread[t].gpc]
               ELSE [w EXCEPT !.forks[k].pret = "Success", !.forks[k].pobs = ret_pid,
                              !.forks[k].ppoint = w.thread[t].gpc]

\* the vfork path rewinding with the pid of the child patched into the
\* captured stack, as the parent of a copying fork is rewound
proc_fork_vfork_patched(w, t, pid_offset, M, in) ==
    LET child_pid == w.thread[t].forking.child
        memory_stack == w.thread[t].forking.memory_stack
        rewind_stack == w.thread[t].forking.rewind_stack
        store_data == capture_snapshot(w, t)
        w2 == [w EXCEPT !.thread[t].cur = child_pid,
                        !.thread[t].poll_seed = 0,
                        !.thread[t].forking = NoForking,
                        !.vfork[t] = [set |-> TRUE, env |-> w.thread[t].cur,
                                      rewind |-> [memory_stack |-> memory_stack,
                                                  rewind_stack |-> rewind_stack,
                                                  store_data |-> store_data,
                                                  is_64bit |-> FALSE,
                                                  after |-> NoAfter],
                                      pid_offset |-> pid_offset],
                        !.forks[child_pid].cstack = memory_stack,
                        !.forks[child_pid].crstack = rewind_stack,
                        !.forks[child_pid].cstore = store_data]
        patched == IF pid_in_stack(pid_offset) /\ pid_in_active(pid_offset, memory_stack)
                   THEN patch_memory_stack(memory_stack, pid_offset, child_pid)
                   ELSE memory_stack
        w3 == rewind(w2, t, M, patched, rewind_stack, store_data, in.r)
    IN IF in.r = "Success"
       THEN [w3 EXCEPT !.forks[child_pid].outcome = "rewound"]
       ELSE GuestTrap([w3 EXCEPT !.forks[child_pid].outcome = "rewindfail"],
                      t, ExitError(in.r), in)

\* lines 75-111: the closure of the unwind in lazy (vfork) mode; from the swap
\* of lines 85-86 on the environment of the thread is the forked one, which
\* WasiEnv::fork starts with poll_seed 0 in either mode (see spawn_child)
proc_fork_vfork(w, t, pid_offset, M, in) ==
    LET child_pid == w.thread[t].forking.child
        memory_stack == w.thread[t].forking.memory_stack
        rewind_stack == w.thread[t].forking.rewind_stack
        store_data == capture_snapshot(w, t)
        w2 == [w EXCEPT !.thread[t].cur = child_pid,
                        !.thread[t].poll_seed = 0,
                        !.thread[t].forking = NoForking,
                        !.vfork[t] = [set |-> TRUE, env |-> w.thread[t].cur,
                                      rewind |-> [memory_stack |-> memory_stack,
                                                  rewind_stack |-> rewind_stack,
                                                  store_data |-> store_data,
                                                  is_64bit |-> FALSE,
                                                  after |-> NoAfter],
                                      pid_offset |-> pid_offset],
                        !.forks[child_pid].cstack = memory_stack,
                        !.forks[child_pid].crstack = rewind_stack,
                        !.forks[child_pid].cstore = store_data]
        w3 == rewind(w2, t, M, memory_stack, rewind_stack, store_data, in.r)
    IN IF in.r = "Success"
       THEN [w3 EXCEPT !.forks[child_pid].outcome = "rewound"]
       ELSE GuestTrap([w3 EXCEPT !.forks[child_pid].outcome = "rewindfail"],
                      t, ExitError(in.r), in)

\* lines 142-194: the child task handed to the task manager, with a copy of
\* the parent's memory
spawn_child(w, t, child_pid, memory_stack, rewind_stack, store_data, M, in) ==
    IF in.spawnok
    THEN [w EXCEPT !.tasks[child_pid] =
                       [kind |-> "wasm",
                        rewind |-> [memory_stack |-> memory_stack,
                                    rewind_stack |-> rewind_stack,
                                    store_data |-> store_data,
                                    is_64bit |-> (M = 64),
                                    after |-> NoAfter],
                        trigger |-> "none", timeout |-> NoDuration,
                        joins |-> <<>>, evts |-> <<>>, ready |-> {},
                        order |-> <<>>, elapsed |-> NoDuration],
                   !.mem[child_pid] = w.mem[t],
                   !.thread[child_pid] =
                       [NoThread EXCEPT !.pc = "spawned", !.cur = child_pid,
                                        !.sp = store_data[1], !.M = M,
                                        !.status = "Running",
                                        !.handle = "task"],
                   !.forks[child_pid].spawned = TRUE]
    ELSE w

\* lines 120-194: the closure of the unwind in copy mode, up to the child's
\* task handed to the task manager
proc_fork_spawn(w, t, M, in) ==
    LET f == w.thread[t].forking
        store_data == f.snapshot
        child_memory_stack == f.memory_stack
        child_rewind_stack == f.rewind_stack
        w2 == spawn_child(w, t, f.child, child_memory_stack, child_rewind_stack,
                          store_data, M, in)
    IN [w2 EXCEPT !.thread[t].forking.at = "held"]

\* lines 196-239: the closure of the unwind in copy mode from the check of
\* the pid slot on
proc_fork_copy(w, t, pid_offset, M, in) ==
    LET child_pid == w.thread[t].forking.child
        memory_stack == w.thread[t].forking.memory_stack
        rewind_stack == w.thread[t].forking.rewind_stack
        store_data == w.thread[t].forking.snapshot
        w2 == [w EXCEPT !.thread[t].forking = NoForking]
        trap == GuestTrap([w2 EXCEPT !.forks[child_pid].outcome = "trap",
                                     !.forks[child_pid].pstack = memory_stack,
                                     !.forks[child_pid].tmem = w2.mem[t]],
                          t, ExitError("Memviolation"), in)
    IN IF pid_in_stack(pid_offset)
       THEN IF ~pid_in_active(pid_offset, memory_stack) THEN trap
            ELSE LET patched == patch_memory_stack(memory_stack, pid_offset, child_pid)
                     w3 == [rewind(w2, t, M, patched, rewind_stack, store_data, in.r)
                              EXCEPT !.forks[child_pid].pstack = patched,
                                     !.forks[child_pid].prstack = rewind_stack,
                                     !.forks[child_pid].pstore = store_data]
                 IN IF in.r = "Success"
                    THEN [w3 EXCEPT !.forks[child_pid].outcome = "rewound"]
                    ELSE GuestTrap([w3 EXCEPT !.forks[child_pid].outcome = "rewindfail"],
                                   t, ExitError(in.r), in)
       ELSE trap

\* the push of the child process made twice
children_push_twice(inner_children, child) == Append(Append(inner_children, child), child)

\* lines 53-56: inner.children.push(child_env.process.clone())
children_push(inner_children, child) == Append(inner_children, child)

\* proc_fork with the write of 0 to the pid slot (line 61) made ahead of the
\* fork of the environment
proc_fork_write_before_fork(w, t, copy_memory, pid_offset, M, in) ==
    IF process_signals_and_exit(w, t) THEN GuestTrap(w, t, ExitError("Intr"), in)
    ELSE IF handle_rewind(w, t)
    THEN LET ret_pid == IF pid_offset + PidBytes <= MemSize
                        THEN from_ne_bytes(ReadBytes(w.mem[t], pid_offset, PidBytes))
                        ELSE -1
         IN SyscallReturn(ForkObserved([w EXCEPT !.thread[t].obs = ret_pid], t, ret_pid),
                          t, "Success")
    ELSE IF pid_offset + PidBytes > MemSize THEN SyscallReturn(w, t, "Memviolation")
    ELSE LET wz == [w EXCEPT !.mem[t] = WriteBytes(@, pid_offset, to_ne_bytes(0))]
         IN IF ~in.envok THEN SyscallReturn(wz, t, "Perm")
            ELSE LET child_pid == wz.nproc + 1
                 IN [wz EXCEPT !.nproc = child_pid,
                               !.children[wz.thread[t].cur] = children_push(@, child_pid),
                               !.forks[child_pid] =
                                   [NoFork EXCEPT !.parent = t, !.copy = copy_memory,
                                                  !.off = pid_offset,
                                                  !.point = wz.thread[t].gpc],
                               !.thread[t].forking =
                                   [NoForking EXCEPT !.at = "pushed",
                                                     !.child = child_pid]]

\* proc_fork with the write of 0 to the pid slot (line 61) made ahead of the
\* rewind check
proc_fork_write_before_rewind_check(w, t, copy_memory, pid_offset, M, in) ==
    IF process_signals_and_exit(w, t) THEN GuestTrap(w, t, ExitError("Intr"), in)
    ELSE IF pid_offset + PidBytes > MemSize THEN SyscallReturn(w, t, "Memviolation")
    ELSE LET wz == [w EXCEPT !.mem[t] = WriteBytes(@, pid_offset, to_ne_bytes(0))]
         IN IF handle_rewind(wz, t)
            THEN LET ret_pid == from_ne_bytes(ReadBytes(wz.mem[t], pid_offset, PidBytes))
                 IN SyscallReturn(ForkObserved([wz EXCEPT !.thread[t].obs = ret_pid],
                                               t, ret_pid),
                                  t, "Success")
            ELSE IF ~in.envok THEN SyscallReturn(wz, t, "Perm")
            ELSE LET child_pid == wz.nproc + 1
                 IN [wz EXCEPT !.nproc = child_pid,
                               !.children[wz.thread[t].cur] = children_push(@, child_pid),
                               !.forks[child_pid] =
                                   [NoFork EXCEPT !.parent = t, !.copy = copy_memory,
                                                  !.off = pid_offset,
                                                  !.point = wz.thread[t].gpc],
                               !.thread[t].forking =
                                   [NoForking EXCEPT !.at = "pushed",
                                                     !.child = child_pid]]

\* lines 16-56: proc_fork up to the push of the child among the parent's
\* children, after which the write lock on the parent's process is released
proc_fork(w, t, copy_memory, pid_offset, M, in) ==
    IF process_signals_and_exit(w, t) THEN GuestTrap(w, t, ExitError("Intr"), in)
    ELSE IF handle_rewind(w, t)
    THEN LET \* pid_ptr.read(&view).unwrap_or(u32::MAX), u32::MAX written as -1
             ret_pid == IF pid_offset + PidBytes <= MemSize
                        THEN from_ne_bytes(ReadBytes(w.mem[t], pid_offset, PidBytes))
                        ELSE -1
         IN SyscallReturn(ForkObserved([w EXCEPT !.thread[t].obs = ret_pid], t, ret_pid),
                          t, "Success")
    ELSE IF ~in.envok THEN SyscallReturn(w, t, "Perm")
    ELSE LET child_pid == w.nproc + 1
         IN [w EXCEPT !.nproc = child_pid,
                      !.children[w.thread[t].cur] = children_push(@, child_pid),
                      !.forks[child_pid] =
                          [NoFork EXCEPT !.parent = t, !.copy = copy_memory,
                                         !.off = pid_offset,
                                         !.point = w.thread[t].gpc],
                      !.thread[t].forking = [NoForking EXCEPT !.at = "pushed",
                                                              !.child = child_pid]]

\* lines 57-120: the 0 written to the pid slot, the snapshot taken and the
\* unwind asked for; proc_fork returns to the engine, which unwinds the guest
\* and keeps the stacks for the closure
proc_fork_unwind(w, t, copy_memory, pid_offset, M) ==
    IF pid_offset + PidBytes > MemSize THEN SyscallReturn(w, t, "Memviolation")
    ELSE LET child_pid == w.thread[t].forking.child
             w2 == [w EXCEPT !.mem[t] = WriteBytes(@, pid_offset, to_ne_bytes(0))]
             snapshot == capture_snapshot(w2, t)
             memory_stack == get_memory_stack(w2, t)
             rewind_stack == get_rewind_stack(w2, t)
         IN [unwind(w2, t, IF copy_memory THEN "fork" ELSE "vfork")
               EXCEPT !.thread[t].forking =
                          [at |-> "unwound", child |-> child_pid,
                           snapshot |-> snapshot, memory_stack |-> memory_stack,
                           rewind_stack |-> rewind_stack],
                      !.forks[child_pid].cap = Len(w.caps) + 1,
                      !.forks[child_pid].captured = memory_stack,
                      !.forks[child_pid].pmem =
                          IF copy_memory THEN w2.mem[t] ELSE <<>>]

\* lines 150-178: the closure the child task runs first
fork_child_run(w, c, M, rs, in) ==
    LET w0 == [w EXCEPT !.tasks[c] = NoTask, !.thread[c].log = <<>>,
                        !.thread[c].handle = "run",
                        !.thread[c].pc = "guest"]
        w1 == [rewind(w0, c, M, rs.memory_stack, rs.rewind_stack, rs.store_data, in.r)
                 EXCEPT !.forks[c].cstack = rs.memory_stack,
                        !.forks[c].crstack = rs.rewind_stack,
                        !.forks[c].cstore = rs.store_data]
    IN IF rewind_errno(M, rs.rewind_stack, in.r) # "Success" THEN Returned(w1, c)
       ELSE run(w1, c, M, FALSE, NoRewind, "none", in)

\* ------------------------------------------ imports.rs (api/src/sys, js)
\* the namespaces, names and externs of the tests of the two files
Namespaces == {"dog", "cat"}
Names == {"happy", "small"}
Externs == {"g1", "g2"}
\* the keys of Imports.map
Keys == Namespaces \X Names
\* no entry under a key of the map
NoExtern == "none"
\* the two variants of the file: src/lib/api/src/sys and src/lib/api/src/js
Apis == {"sys", "js"}

\* Imports::new: the empty map
Imports_new == [k \in Keys |-> NoExtern]

\* HashMap::contains_key and HashMap::insert on Imports.map
contains_key(map, k) == map[k] # NoExtern
insert(map, k, v) == [map EXCEPT ![k] = v]

\* Extern::to_export (sys) and Extern::clone (js): the value handed out for an
\* extern of the map
to_export(ext) == [from |-> ext]
handed_out(api, ext) == IF api = "sys" THEN to_export(ext) ELSE ext

None == [some |-> FALSE]
Some(v) == [some |-> TRUE, val |-> v]

\* get_export that finds the name in any namespace
get_export_any_namespace(self, ns, name, api) ==
    IF \E k \in Keys : k[2] = name /\ contains_key(self, k)
    THEN LET k == CHOOSE k \in Keys : k[2] = name /\ contains_key(self, k)
         IN Some(handed_out(api, self[k]))
    ELSE None

\* sys/imports.rs lines 28-37, js/imports.rs lines 59-65
get_export(self, ns, name, api) ==
    IF contains_key(self, <<ns, name>>)
    THEN Some(handed_out(api, self[<<ns, name>>]))
    ELSE None

\* sys/imports.rs lines 40-42, js/imports.rs lines 68-70
contains_namespace(self, name) == \E k \in Keys : contains_key(self, k) /\ k[1] = name

\* sys/imports.rs lines 56-64, js/imports.rs lines 86-94; contents is the
\* sequence of (name, extern) the iterator yields
RECURSIVE register_namespace(_, _, _)
register_namespace(self, ns, contents) ==
    IF contents = <<>> THEN self
    ELSE register_namespace(insert(self, <<ns, Head(contents)[1]>>, Head(contents)[2]),
                            ns, Tail(contents))

\* sys/imports.rs lines 67-70, js/imports.rs lines 108-111
define(self, ns, name, val) == insert(self, <<ns, name>>, val)

\* the result of imports_for_module
Ok(ret) == [ok |-> TRUE, ret |-> ret, err |-> <<>>]
\* LinkError::Import(module, name, ImportError::UnknownImport(ty))
LinkError_Import(module, name) == [ok |-> FALSE, ret |-> <<>>, err |-> <<module, name>>]

\* imports_for_module that leaves out the imports it does not find
RECURSIVE imports_for_module_skipping(_, _, _, _)
imports_for_module_skipping(self, module_imports, ret, api) ==
    IF module_imports = <<>> THEN Ok(ret)
    ELSE LET import == Head(module_imports)
         IN IF contains_key(self, import)
            THEN imports_for_module_skipping(self, Tail(module_imports),
                                             Append(ret, handed_out(api, self[import])), api)
            ELSE imports_for_module_skipping(self, Tail(module_imports), ret, api)

\* sys/imports.rs lines 89-107, js/imports.rs lines 130-154: module_imports
\* is what is left of module.imports(), ret the vector built so far
RECURSIVE imports_for_module(_, _, _, _)
imports_for_module(self, module_imports, ret, api) ==
    IF module_imports = <<>> THEN Ok(ret)
    ELSE LET import == Head(module_imports)
         IN IF contains_key(self, import)
            THEN imports_for_module(self, Tail(module_imports),
                                    Append(ret, handed_out(api, self[import])), api)
            ELSE LinkError_Import(import[1], import[2])

\* extend that first removes from self the namespaces the iterator brings
extend_replacing_namespaces(self, iter) ==
    LET brought == {iter[i][1][1] : i \in 1..Len(iter)}
        kept == [k \in Keys |-> IF k[1] \in brought THEN NoExtern ELSE self[k]]
    IN [k \in Keys |->
          IF \E i \in 1..Len(iter) : iter[i][1] = k
          THEN iter[CHOOSE i \in 1..Len(iter) : iter[i][1] = k][2]
          ELSE kept[k]]

\* js/imports.rs lines 199-205: Extend for Imports; iter is the sequence of
\* ((ns, name), extern) the iterator yields
RECURSIVE extend(_, _)
extend(self, iter) ==
    IF iter = <<>> THEN self
    ELSE extend(define(self, Head(iter)[1][1], Head(iter)[1][2], Head(iter)[2]),
                Tail(iter))

\* sys/imports.rs lines 110-117, js/imports.rs lines 190-197: IntoIterator
\* for &Imports iterates a clone of the map, in an order the HashMap decides:
\* the sequences that hold every entry of the map once
Entries(self) == {<<k, self[k]>> : k \in {x \in Keys : contains_key(self, x)}}
into_iter(self) ==
    {q \in [1..Cardinality(Entries(self)) -> Entries(self)] : Range(q) = Entries(self)}

\* ---------------------------------------------------------------- actions
\* subscription arrays the guest may pass to poll_oneoff: a readable file
\* with a timeout, a file without the right to poll
PollArrays == {<<FdSub("FdRead", 3, 2), ClockSub("Monotonic", 5, 1)>>,
               <<FdSub("FdWrite", 4, 3)>>}
\* which of in_, out_ and nevents the guest passes as valid pointers
PollPtrs == {AllPtrs, [AllPtrs EXCEPT !.in_ = FALSE], [AllPtrs EXCEPT !.out_ = FALSE],
             [AllPtrs EXCEPT !.nevents = FALSE]}
\* file descriptors that may become ready
PollFds == {1, 3}
\* the orders in which file descriptors may have become ready by the time the
\* PollBatch is polled
ReadyOrders == {o \in UNION {[1..n -> PollFds] : n \in 0..Cardinality(PollFds)} :
                   \A i, j \in 1..Len(o) : i # j => o[i] # o[j]}
\* the orders in which the fds became ready one after the other by number
AscendingOrders == {o \in ReadyOrders : \A i, j \in 1..Len(o) : i < j => o[i] < o[j]}

\* the subscriptions a guest may put into the array of a poll: a readable
\* file, stdout, a file without the right to poll, an fd that is not open,
\* clocks with the two sentinel timeouts and with two ordinary timeouts, a
\* clock that repeats the clock id and userdata of another, a clock id that is
\* not supported
PollSubs == {FdSub("FdRead", 3, 1), FdSub("FdWrite", 1, 2), FdSub("FdWrite", 4, 1),
             FdSub("FdRead", 6, 1),
             ClockSub("Monotonic", 0, 1), ClockSub("Monotonic", 1, 1),
             ClockSub("Monotonic", 5, 1), ClockSub("Monotonic", 7, 2),
             ClockSub("Monotonic", 7, 1), ClockSub("ProcessCputimeId", 5, 1)}
\* the subscription arrays of up to MaxSubs subscriptions
PollSubscriptions == UNION {[1..n -> PollSubs] : n \in 1..MaxSubs}

Inputs(acc, f, r, envok, spawnok) ==
    [acc |-> acc, f |-> f, r |-> r, envok |-> envok, spawnok |-> spawnok]

NoInputs == Inputs(TRUE, "Ok", "Success", TRUE, TRUE)

\* a host task starts on a pool thread: the closure the task manager held is
\* called and has the thread handle
TaskStarts(w, t) == [w EXCEPT !.tasks[t] = NoTask, !.thread[t].log = <<>>,
                              !.thread[t].handle = "run"]

\* the guest enters a syscall: the call and its arguments are what the guest
\* passes; the history of the previous call is forgotten and seed0 keeps the
\* poll_seed the call starts with
CallStarts(w, t, call) ==
    [w EXCEPT !.thread[t].call = call, !.thread[t].last = call,
              !.thread[t].ret = "none", !.thread[t].guards = 0,
              !.thread[t].woke = NoWoke,
              !.thread[t].seed0 = w.thread[t].poll_seed]

\* exec.rs lines 97-134: the task of spawn_exec_module runs _initialize, if
\* exported, and calls the module
RunMainTask ==
    /\ tasks[MainThread].kind = "wasm"
    /\ \E init \in {"none", "ok", "fail"} :
        LET w0 == TaskStarts(World, MainThread)
        IN IF init = "fail"
           THEN Becomes([Returned(cleanup(w0, MainThread, "Noexec"), MainThread)
                           EXCEPT !.thread[MainThread].status = "Finished",
                                  !.thread[MainThread].finished =
                                      Append(@, <<"Err", "RuntimeError">>)])
           ELSE Becomes(call_module(w0, MainThread, FALSE, NoRewind, "none", NoInputs))
    /\ UNCHANGED ncalls

\* the task manager runs the task of a forked child
RunChildTask(c) ==
    /\ c # MainThread
    /\ tasks[c].kind = "wasm"
    /\ \E r \in RewindResults :
        Becomes(fork_child_run(World, c, thread[c].M, tasks[c].rewind,
                               Inputs(TRUE, "Ok", r, TRUE, TRUE)))
    /\ UNCHANGED ncalls

\* the guest returns from its entry function or traps
GuestEnd(t, e) ==
    /\ thread[t].pc = "guest"
    /\ ~thread[t].rewinding
    /\ thread[t].forking.at = "none"
    /\ LET err == CASE e = "Ok" -> [NoError EXCEPT !.kind = "Ok"]
                    [] e = "ExitSuccess" -> ExitError("Success")
                    [] e = "ExitFault" -> ExitError("Fault")
                    [] e = "UnknownWasiVersion" -> [NoError EXCEPT !.kind = "UnknownWasiVersion"]
                    [] OTHER -> [NoError EXCEPT !.kind = "RuntimeError"]
       IN Becomes(GuestTrap(World, t, err, NoInputs))
    /\ UNCHANGED ncalls

\* the guest calls thread_sleep
ThreadSleep(t, d, M, acc) ==
    /\ thread[t].pc = "guest"
    /\ ~thread[t].rewinding
    /\ thread[t].forking.at = "none"
    /\ ncalls < MaxCalls
    /\ ncalls' = ncalls + 1
    /\ LET w0 == CallStarts(World, t, SleepCall(d, M))
       IN Becomes(thread_sleep_internal(w0, t, d, M, Inputs(acc, "Ok", "Success", TRUE, TRUE)))

\* the guest calls poll_oneoff
PollOneoff(t, subs, ptrs, M, acc) ==
    /\ thread[t].pc = "guest"
    /\ ~thread[t].rewinding
    /\ thread[t].forking.at = "none"
    /\ ncalls < MaxCalls
    /\ ncalls' = ncalls + 1
    /\ LET w0 == CallStarts(World, t, PollCall(subs, ptrs, M))
       IN Becomes(poll_oneoff(w0, t, subs, ptrs, M, Inputs(acc, "Ok", "Success", TRUE, TRUE)))

\* the guest calls poll_oneoff again with the arguments of its last poll
PollRepeat(t, acc) ==
    /\ thread[t].last.name = "poll"
    /\ PollOneoff(t, thread[t].last.subs, thread[t].last.ptrs, thread[t].last.w, acc)

\* the guest calls proc_fork
ProcFork(t, copy, off, M, envok) ==
    /\ thread[t].pc = "guest"
    /\ ~thread[t].rewinding
    /\ thread[t].forking.at = "none"
    /\ ncalls < MaxCalls
    /\ ncalls' = ncalls + 1
    /\ nproc < MaxProcs
    /\ LET w0 == CallStarts(World, t, ForkCall(copy, off, M))
       IN Becomes(proc_fork(w0, t, copy, off, M,
                            Inputs(TRUE, "Ok", "Success", envok, TRUE)))

\* proc_fork goes on after the push of the child: it writes the slot and
\* returns to the engine with the unwind
ProcForkUnwind(t) ==
    /\ thread[t].pc = "guest"
    /\ thread[t].forking.at = "pushed"
    /\ LET c == thread[t].call
       IN Becomes(proc_fork_unwind(World, t, c.copy, c.off, c.w))
    /\ UNCHANGED ncalls

\* the engine has unwound the guest and calls the closure of the unwind: in
\* copy mode the closure runs up to task_wasm, in lazy mode to its end
UnwindCallback(t, spawnok, r) ==
    /\ thread[t].pc = "guest"
    /\ thread[t].forking.at = "unwound"
    /\ LET c == thread[t].call
       IN IF c.copy
          THEN /\ r = "Success"
               /\ Becomes(proc_fork_spawn(World, t, c.w,
                                          Inputs(TRUE, "Ok", "Success", TRUE, spawnok)))
          ELSE /\ spawnok
               /\ Becomes(proc_fork_vfork(World, t, c.off, c.w,
                                          Inputs(TRUE, "Ok", r, TRUE, TRUE)))
    /\ UNCHANGED ncalls

\* the closure of a copying fork goes on after task_wasm: the parent's slot
\* is patched and the parent rewound, or the call traps
ProcForkPatch(t, r) ==
    /\ thread[t].pc = "guest"
    /\ thread[t].forking.at = "held"
    /\ LET c == thread[t].call
       IN Becomes(proc_fork_copy(World, t, c.off, c.w, Inputs(TRUE, "Ok", r, TRUE, TRUE)))
    /\ UNCHANGED ncalls

\* the rewound guest replays to the call it was suspended in and calls it again
Reenter(t) ==
    /\ thread[t].pc = "guest"
    /\ thread[t].rewinding
    /\ LET c == thread[t].call
       IN CASE c.name = "sleep" ->
                 Becomes(thread_sleep_internal(World, t, c.d, c.w, NoInputs))
            [] c.name = "poll" ->
                 Becomes(poll_oneoff(World, t, c.subs, c.ptrs, c.w, NoInputs))
            [] OTHER ->
                 Becomes(proc_fork(World, t, c.copy, c.off, c.w, NoInputs))
    /\ UNCHANGED ncalls

\* the timeout of a deep sleep elapses with the trigger still pending, and
\* the task manager notices it at once or one poll interval late; a zero
\* timeout is one poll of the trigger that found nothing
TimerFire(t, late) ==
    /\ tasks[t].kind = "poller"
    /\ tasks[t].trigger = "pending"
    /\ tasks[t].timeout # NoDuration
    /\ tasks[t].timeout = 0 => late = 0
    /\ tasks' = [tasks EXCEPT ![t].trigger = IF tasks[t].timeout = 0 THEN "again"
                                             ELSE "timeout",
                              ![t].elapsed = tasks[t].timeout + late]
    /\ UNCHANGED <<thread, mem, children, vfork, nproc, caps, forks, ncalls>>
    /\ UNCHANGED ivars
    /\ UNCHANGED patch

\* the task manager polls the PollBatch of a deep sleep while the fds of
\* order are ready, which became ready in the order of the sequence
FdReady(t, order) ==
    /\ tasks[t].kind = "poller"
    /\ tasks[t].trigger = "pending"
    /\ PollBatch_poll(tasks[t].joins, Range(order)) # <<>>
    /\ tasks' = [tasks EXCEPT ![t].trigger = "ready",
                              ![t].ready = Range(order),
                              ![t].order = order,
                              ![t].evts = PollBatch_poll(tasks[t].joins, Range(order))]
    /\ UNCHANGED <<thread, mem, children, vfork, nproc, caps, forks, ncalls>>
    /\ UNCHANGED ivars
    /\ UNCHANGED patch

\* a termination signal is delivered to the thread while it is suspended
\* (asleep, or unwound by proc_fork and not yet back in the syscall); a pending
\* trigger resolves at once
DeliverSignal(t) ==
    /\ \/ thread[t].pc = "asleep"
       \/ thread[t].pc = "guest" /\ thread[t].rewinding
    /\ ~thread[t].sig
    /\ thread' = [thread EXCEPT ![t].sig = TRUE]
    /\ tasks' = [tasks EXCEPT ![t].trigger =
                    IF tasks[t].kind = "poller" /\ @ = "pending" THEN "signal" ELSE @]
    /\ UNCHANGED <<mem, children, vfork, nproc, caps, forks, ncalls>>
    /\ UNCHANGED ivars
    /\ UNCHANGED patch

\* the task manager invokes the respawn closure once the trigger is complete
Respawn(t) ==
    /\ tasks[t].kind = "poller"
    /\ tasks[t].trigger # "pending"
    /\ \E f \in {"Ok", "Unknown"}, r \in RewindResults :
        LET rs == tasks[t].rewind
            c == rs.rewind_stack[1]
            res == [kind |-> tasks[t].trigger, evts |-> tasks[t].evts]
            w0 == [Logged(TaskStarts(World, t), t, <<"resume", rs.is_64bit>>)
                     EXCEPT !.caps[c].respawns = @ + 1,
                            !.thread[t].woke = [by |-> tasks[t].trigger,
                                                after |-> tasks[t].elapsed]]
            in == Inputs(TRUE, f, r, TRUE, TRUE)
        IN IF t = MainThread
           THEN Becomes(call_module(w0, t, TRUE, rs, res, in))
           ELSE Becomes(run(w0, t, thread[t].M, TRUE, rs, res, in))
    /\ UNCHANGED ncalls

\* no operation on the Imports yet
NoRet == [op |-> "none", api |-> "js", ns |-> "", name |-> "", contents |-> <<>>,
          other |-> Imports_new, module |-> <<>>, opt |-> None, res |-> Ok(<<>>)]

InitImports ==
    /\ imports1 = Imports_new
    /\ registered = {}
    /\ iret = NoRet

\* no Imports is kept by the processes
NoImports ==
    /\ imports1 = <<>>
    /\ registered = {}
    /\ iret = <<>>

\* no pid slot is taken on its own
NoPatch == patch = <<>>

Init ==
    /\ NoImports
    /\ NoPatch
    /\ \E s \in SPs, hs \in BOOLEAN :
        thread = [t \in Threads |->
                    IF t = MainThread
                    THEN [NoThread EXCEPT !.pc = "spawned", !.cur = MainThread,
                                          !.sp = s, !.has_start = hs,
                                          !.handle = "task",
                                          !.spawn = [NoSpawn EXCEPT
                                                       !.via = "spawn_exec_module",
                                                       !.res = "Ok"]]
                    ELSE NoThread]
    /\ mem = [t \in Threads |-> InitMem]
    /\ tasks = [t \in Threads |->
                  IF t = MainThread THEN [NoTask EXCEPT !.kind = "wasm"] ELSE NoTask]
    /\ children = [p \in Threads |-> <<>>]
    /\ vfork = [t \in Threads |-> NoVFork]
    /\ nproc = 1
    /\ caps = <<>>
    /\ forks = [p \in Threads |-> NoFork]
    /\ ncalls = 0

Next ==
    \/ RunMainTask
    \/ \E c \in Threads : RunChildTask(c)
    \/ \E t \in Threads, e \in GuestEnds : GuestEnd(t, e)
    \/ \E t \in Threads, d \in Durations, M \in Widths, acc \in BOOLEAN :
           ThreadSleep(t, d, M, acc)
    \/ \E t \in Threads, subs \in PollArrays, M \in ForkWidths, acc \in BOOLEAN :
           PollOneoff(t, subs, AllPtrs, M, acc)
    \/ \E t \in Threads, order \in AscendingOrders : FdReady(t, order)
    \/ \E t \in Threads, copy \in BOOLEAN, off \in Offs, M \in ForkWidths,
          envok \in BOOLEAN : ProcFork(t, copy, off, M, envok)
    \/ \E t \in Threads : ProcForkUnwind(t)
    \/ \E t \in Threads, spawnok \in BOOLEAN, r \in RewindResults :
           UnwindCallback(t, spawnok, r)
    \/ \E t \in Threads, r \in RewindResults : ProcForkPatch(t, r)
    \/ \E t \in Threads : Reenter(t)
    \/ \E t \in Threads, late \in {0, PollInterval} : TimerFire(t, late)
    \/ \E t \in Threads : DeliverSignal(t)
    \/ \E t \in Threads : Respawn(t)

Spec == Init /\ [][Next]_vars

\* a single process that polls: its first poll is any subscription array with
\* any pointers, its later polls repeat the first
InitPoll ==
    /\ Init
    /\ thread[MainThread].sp = StackUpper

NextPoll ==
    \/ RunMainTask
    \/ \E t \in Threads, e \in GuestEnds : GuestEnd(t, e)
    \/ \E t \in Threads :
           /\ thread[t].pc = "guest"
           /\ thread[t].last.name = "none"
           /\ \E subs \in PollSubscriptions, ptrs \in PollPtrs, M \in Widths,
                 acc \in BOOLEAN :
                  PollOneoff(t, subs, ptrs, M, acc)
    \/ \E t \in Threads, acc \in BOOLEAN : PollRepeat(t, acc)
    \/ \E t \in Threads, order \in ReadyOrders : FdReady(t, order)
    \/ \E t \in Threads : Reenter(t)
    \/ \E t \in Threads, late \in {0, PollInterval} : TimerFire(t, late)
    \/ \E t \in Threads : DeliverSignal(t)
    \/ \E t \in Threads : Respawn(t)

SpecPoll == InitPoll /\ [][NextPoll]_vars

\* ----------------------------------------------------------- spawning
\* what the binary factory, the module cache, the compiler and the task
\* manager answer: the binary is found, the module is in the cache, the
\* package has an entry, the entry compiles, the module is saved to the cache,
\* the task is launched
SpawnInputs == [found : BOOLEAN, cached : BOOLEAN, entry : BOOLEAN,
                compiles : BOOLEAN, saves : BOOLEAN, launch : BOOLEAN]

\* an entry point of the spawn path is called with the environment and its
\* future is polled for the first time: spawn and spawn_exec run to their
\* first await, spawn_exec_module, which is not async, to its end
Spawn(via, in) ==
    /\ thread[MainThread].pc = "new"
    /\ thread[MainThread].future.via = "none"
    /\ LET w0 == [World EXCEPT !.thread[MainThread].future.via = via]
       IN CASE via = "spawn" -> Becomes(BinFactory_spawn(w0, MainThread, in))
            [] via = "spawn_exec" -> Becomes(spawn_exec(w0, MainThread, in))
            [] OTHER -> Becomes(spawn_exec_module(w0, MainThread, in))
    /\ UNCHANGED ncalls

\* the executor polls the future of the entry point again: the awaited future
\* is ready and the entry point runs on to its next await or to its end
SpawnResume(in) ==
    /\ thread[MainThread].future.at # "none"
    /\ IF thread[MainThread].future.via = "spawn"
       THEN Becomes(BinFactory_spawn(World, MainThread, in))
       ELSE Becomes(spawn_exec(World, MainThread, in))
    /\ UNCHANGED ncalls

\* exec.rs lines 294-312: try_built_in is called with the options that hold
\* the store and the environment; a command that exists and is given the
\* context of a parent takes the two, otherwise they stay with the caller,
\* NotFound is returned and nothing is cleaned up
TryBuiltIn(parent_ctx, exists) ==
    /\ thread[MainThread].pc = "new"
    /\ thread[MainThread].future.via = "none"
    /\ IF parent_ctx /\ exists
       THEN Becomes([World EXCEPT !.thread[MainThread].pc = "builtin",
                                  !.thread[MainThread].handle = "command",
                                  !.thread[MainThread].spawn.builtin = "exec"])
       ELSE Becomes([World EXCEPT !.thread[MainThread].spawn.builtin = "NotFound"])
    /\ UNCHANGED ncalls

\* the environment of the main thread is built and not yet spawned
InitSpawn ==
    /\ NoImports
    /\ NoPatch
    /\ \E s \in SPs, hs \in BOOLEAN :
        thread = [t \in Threads |->
                    IF t = MainThread
                    THEN [NoThread EXCEPT !.pc = "new", !.cur = MainThread,
                                          !.sp = s, !.has_start = hs,
                                          !.handle = "env"]
                    ELSE NoThread]
    /\ mem = [t \in Threads |-> InitMem]
    /\ tasks = [t \in Threads |-> NoTask]
    /\ children = [p \in Threads |-> <<>>]
    /\ vfork = [t \in Threads |-> NoVFork]
    /\ nproc = 1
    /\ caps = <<>>
    /\ forks = [p \in Threads |-> NoFork]
    /\ ncalls = 0

NextSpawn ==
    \/ \E via \in {"spawn", "spawn_exec", "spawn_exec_module"}, in \in SpawnInputs : Spawn(via, in)
    \/ \E in \in SpawnInputs : SpawnResume(in)
    \/ \E parent_ctx \in BOOLEAN, exists \in BOOLEAN : TryBuiltIn(parent_ctx, exists)
    \/ RunMainTask
    \/ \E t \in Threads, e \in GuestEnds : GuestEnd(t, e)
    \/ \E t \in Threads, d \in Durations, M \in Widths, acc \in BOOLEAN :
           ThreadSleep(t, d, M, acc)
    \/ \E t \in Threads : Reenter(t)
    \/ \E t \in Threads, late \in {0, PollInterval} : TimerFire(t, late)
    \/ \E t \in Threads : Respawn(t)

SpecSpawn == InitSpawn /\ [][NextSpawn]_vars

\* --------------------------------------------------- the pid slot alone
\* the sizes of the linear memory the pid slot is written to at line 61
MemorySizes == {OffsetMAX - 1, OffsetMAX}

\* a copying fork is about to handle a pid slot: any pid_offset, any
\* stack_lower and stack_upper of the layout, any length of the captured
\* memory stack
InitPatch ==
    /\ InitImports
    /\ thread = <<>>
    /\ mem = <<>>
    /\ tasks = <<>>
    /\ children = <<>>
    /\ vfork = <<>>
    /\ nproc = 0
    /\ caps = <<>>
    /\ forks = <<>>
    /\ ncalls = 0
    /\ \E pid_offset \in 0..OffsetMAX, stack_lower \in 0..OffsetMAX,
          stack_upper \in 0..OffsetMAX, len \in 0..OffsetMAX,
          memory_size \in MemorySizes :
           patch = [pid_offset |-> pid_offset, stack_lower |-> stack_lower,
                    stack_upper |-> stack_upper, len |-> len,
                    memory_size |-> memory_size, out |-> "none",
                    r |-> [offset |-> 0, pstart |-> 0, pend |-> 0]]

\* lines 61 and 196-225 are run on the slot
PatchPid ==
    /\ patch.out = "none"
    /\ LET res == patch_pid(patch.pid_offset, patch.stack_lower, patch.stack_upper,
                            patch.len, patch.memory_size)
       IN patch' = [patch EXCEPT !.out = res.out, !.r = res.r]
    /\ UNCHANGED wvars
    /\ UNCHANGED ivars

NextPatch == PatchPid

SpecPatch == InitPatch /\ [][NextPatch]_vars

\* ------------------------------------------------- operations on an Imports
\* the Imports that extend may be given: those of up to MaxEntries entries
PrebuiltImports ==
    {m \in [Keys -> Externs \cup {NoExtern}] :
        Cardinality({k \in Keys : contains_key(m, k)}) <= MaxEntries}
\* the contents register_namespace may be given: what an Exports of up to
\* MaxEntries names yields, each name once
NamespaceContents ==
    {c \in UNION {[1..n -> Names \X Externs] : n \in 0..MaxEntries} :
        \A i, j \in 1..Len(c) : i # j => c[i][1] # c[j][1]}
\* the imports a module may declare, in the order of its declaration
ModuleImports == UNION {[1..n -> Keys] : n \in 0..MaxImports}

Define(ns, name, val) ==
    /\ imports1' = define(imports1, ns, name, val)
    /\ registered' = registered \cup {<<ns, name>>}
    /\ iret' = [NoRet EXCEPT !.op = "define", !.ns = ns, !.name = name]
    /\ UNCHANGED wvars
    /\ UNCHANGED patch

RegisterNamespace(ns, contents) ==
    /\ imports1' = register_namespace(imports1, ns, contents)
    /\ registered' = registered \cup {<<ns, contents[i][1]>> : i \in 1..Len(contents)}
    /\ iret' = [NoRet EXCEPT !.op = "register_namespace", !.ns = ns,
                             !.contents = contents]
    /\ UNCHANGED wvars
    /\ UNCHANGED patch

\* imports1.extend(&imports2) with other the map of imports2
Extend(other) ==
    /\ \E iter \in into_iter(other) : imports1' = extend(imports1, iter)
    /\ registered' = registered \cup {k \in Keys : contains_key(other, k)}
    /\ iret' = [NoRet EXCEPT !.op = "extend", !.other = other]
    /\ UNCHANGED wvars
    /\ UNCHANGED patch

GetExport(ns, name, api) ==
    /\ iret' = [NoRet EXCEPT !.op = "get_export", !.api = api, !.ns = ns,
                             !.name = name,
                             !.opt = get_export(imports1, ns, name, api)]
    /\ UNCHANGED <<imports1, registered>>
    /\ UNCHANGED wvars
    /\ UNCHANGED patch

ImportsForModule(module, api) ==
    /\ iret' = [NoRet EXCEPT !.op = "imports_for_module", !.api = api,
                             !.module = module,
                             !.res = imports_for_module(imports1, module, <<>>, api)]
    /\ UNCHANGED <<imports1, registered>>
    /\ UNCHANGED wvars
    /\ UNCHANGED patch

NextImports ==
    \/ \E ns \in Namespaces, name \in Names, val \in Externs : Define(ns, name, val)
    \/ \E ns \in Namespaces, contents \in NamespaceContents :
           RegisterNamespace(ns, contents)
    \/ \E other \in PrebuiltImports : Extend(other)
    \/ \E ns \in Namespaces, name \in Names, api \in Apis : GetExport(ns, name, api)
    \/ \E module \in ModuleImports, api \in Apis : ImportsForModule(module, api)

\* an Imports is built and used before any process is spawned: there is no
\* thread, memory or task yet
InitOnlyImports ==
    /\ InitImports
    /\ NoPatch
    /\ thread = <<>>
    /\ mem = <<>>
    /\ tasks = <<>>
    /\ children = <<>>
    /\ vfork = <<>>
    /\ nproc = 0
    /\ caps = <<>>
    /\ forks = <<>>
    /\ ncalls = 0

SpecImports == InitOnlyImports /\ [][NextImports]_vars

\* ================================================================= claims
Width(is_64bit) == IF is_64bit THEN 64 ELSE 32

\* addresses of the pid slot of fork k
Slot(k) == forks[k].off..(forks[k].off + PidBytes - 1)

\* the address of the byte at index i of a memory stack of length n
StackAddr(n, i) == StackUpper - n + i - 1

CopyForks == {k \in Threads : forks[k].parent # 0 /\ forks[k].copy /\ forks[k].cap # 0}

\* C1: after a copy-mode proc_fork the child returns from the call with
\* Errno::Success and reads 0 from the pid slot, the parent returns from the
\* same call with Errno::Success and reads the child's pid, which is not 0
C1_ForkResult ==
    \A k \in CopyForks :
        /\ forks[k].cret # "none" =>
               /\ forks[k].cret = "Success"
               /\ forks[k].cobs = 0
               /\ forks[k].cpoint = forks[k].point
        /\ forks[k].pret # "none" =>
               /\ forks[k].pret = "Success"
               /\ forks[k].pobs = k
               /\ forks[k].pobs # 0
               /\ forks[k].ppoint = forks[k].point

C1_Witness ==
    \E k \in CopyForks : forks[k].cret = "Success" /\ forks[k].pret = "Success"

\* C2: in a copy-mode proc_fork the child is rewound with the captured memory
\* stack unchanged, the parent with a stack that differs from it only inside
\* the pid slot, and both with the same rewind stack and snapshot bytes
C2_ForkStacks ==
    \A k \in CopyForks :
        /\ forks[k].crstack # <<>> =>
               /\ forks[k].cstack = forks[k].captured
               /\ forks[k].outcome \in {"rewound", "rewindfail"} =>
                      /\ forks[k].crstack = forks[k].prstack
                      /\ forks[k].cstore = forks[k].pstore
        /\ forks[k].outcome \in {"rewound", "rewindfail"} =>
               /\ Len(forks[k].pstack) = Len(forks[k].captured)
               /\ \A i \in 1..Len(forks[k].captured) :
                      forks[k].pstack[i] # forks[k].captured[i] =>
                          StackAddr(Len(forks[k].captured), i) \in Slot(k)

C2_Witness ==
    \E k \in CopyForks :
        /\ forks[k].outcome = "rewound"
        /\ forks[k].crstack # <<>>
        /\ forks[k].pstack # forks[k].captured

\* the pid slot of fork k is not entirely inside [stack_lower, stack_upper] or
\* lies further below stack_upper than the captured memory stack is long
SlotOffStack(k) ==
    \/ ~(forks[k].off >= StackLower /\ forks[k].off + PidBytes <= StackUpper)
    \/ forks[k].cap # 0 /\ StackUpper - forks[k].off > Len(forks[k].captured)

\* the copy-mode proc_fork of child k has trapped with Memviolation: the
\* parent was not rewound, the captured memory stack was not patched and
\* guest memory is as it was at the unwind
TrappedOffStack(k) ==
    /\ forks[k].outcome = "trap"
    /\ thread[forks[k].parent].exit = "Memviolation"
    /\ thread[forks[k].parent].pc = "done"
    /\ caps[forks[k].cap].rewinds[forks[k].parent] = 0
    /\ forks[k].pstack = forks[k].captured
    /\ forks[k].tmem = forks[k].pmem

\* the proc_fork that forked child k has run to its end in the parent
ForkEnded(k) == thread[forks[k].parent].forking.child # k

\* C3 as stated: every copy-mode proc_fork whose pid slot is off the captured
\* stack traps with Memviolation, with the parent not rewound and nothing
\* overwritten with the pid
C3_OffStackTraps ==
    \A k \in Threads :
        forks[k].parent # 0 /\ forks[k].copy /\ SlotOffStack(k) /\ ForkEnded(k) =>
            TrappedOffStack(k)

\* C3, amended: a copy-mode proc_fork whose pid slot is in guest memory but
\* off the captured stack traps with Memviolation, with the parent not rewound
\* and nothing overwritten with the pid; when the slot is not in guest memory
\* the call returns before any unwind, without a trap and without a rewind
C3_OffStackTrapsInMemory ==
    \A k \in Threads :
        forks[k].parent # 0 /\ forks[k].copy /\ SlotOffStack(k) /\ ForkEnded(k) =>
            IF forks[k].off + PidBytes <= MemSize
            THEN TrappedOffStack(k)
            ELSE /\ forks[k].cap = 0
                 /\ forks[k].outcome = "none"
                 /\ forks[k].pret = "none"
                 /\ ~forks[k].spawned

C3_Witness ==
    \E k \in CopyForks :
        /\ SlotOffStack(k)
        /\ forks[k].off >= StackLower
        /\ forks[k].off + PidBytes <= StackUpper
        /\ forks[k].outcome = "trap"

\* C4: when the task manager rejects the child task of a copy-mode proc_fork,
\* the parent does not return from the call with Errno::Success and the pid
\* of the child that was never spawned
C4_RejectedSpawnReported ==
    \A k \in CopyForks :
        ~forks[k].spawned => ~(forks[k].pret = "Success" /\ forks[k].pobs = k)

\* the current host task of thread t was started by a respawn closure
Resumed(t) == Len(thread[t].log) > 0 /\ thread[t].log[1][1] = "resume"

RECURSIVE SumTo(_, _)
SumTo(f, n) == IF n = 0 THEN 0 ELSE f[n] + SumTo(f, n - 1)

\* how many times capture c has been rewound
TotalRewinds(c) == SumTo(caps[c].rewinds, MaxProcs)

\* the threads whose task manager entry or vfork record holds capture c
Holders(c) ==
    {t \in Threads : \/ /\ tasks[t].kind # "none"
                        /\ tasks[t].rewind.rewind_stack # <<>>
                        /\ tasks[t].rewind.rewind_stack[1] = c
                     \/ /\ vfork[t].set
                        /\ vfork[t].rewind.rewind_stack[1] = c}

\* C5 as stated: every captured stack is rewound at most once and is held by
\* at most one suspension or process, whatever syscall produced it
C5_ConsumedOnce ==
    \A c \in DOMAIN caps :
        /\ TotalRewinds(c) <= 1
        /\ Cardinality(Holders(c)) <= 1
        /\ Holders(c) # {} => TotalRewinds(c) = 0

\* C5, amended: the captured stack of a deep sleep (thread_sleep, poll_oneoff)
\* is held by one suspension of its owner and rewound at most once, by its
\* owner, after the task manager let go of it; the captured stack of a
\* copy-mode proc_fork is rewound at most once by the parent and its clone at
\* most once by the child; the captured stack of a lazy proc_fork is rewound at
\* most once, by its owner, while a clone stays in the vfork record
C5_CapturedStackUse ==
    \A c \in DOMAIN caps :
        /\ caps[c].origin \in {"sleep", "poll"} =>
               /\ TotalRewinds(c) <= 1
               /\ Holders(c) \subseteq {caps[c].owner}
               /\ Holders(c) # {} => TotalRewinds(c) = 0
               /\ \A t \in Threads : caps[c].rewinds[t] > 0 => t = caps[c].owner
        /\ caps[c].origin = "fork" =>
               /\ \A t \in Threads :
                      /\ caps[c].rewinds[t] <= 1
                      /\ caps[c].rewinds[t] > 0 =>
                             t = caps[c].owner \/ forks[t].cap = c
               /\ \A t \in Holders(c) : forks[t].cap = c /\ caps[c].rewinds[t] = 0
        /\ caps[c].origin = "vfork" =>
               /\ caps[c].rewinds[caps[c].owner] <= 1
               /\ \A t \in Threads : caps[c].rewinds[t] > 0 => t = caps[c].owner
               /\ Holders(c) \subseteq {caps[c].owner}

C5_Witness ==
    \E c \in DOMAIN caps :
        /\ caps[c].origin = "fork"
        /\ TotalRewinds(c) = 2
        /\ \E d \in DOMAIN caps : caps[d].origin = "sleep" /\ TotalRewinds(d) = 1

\* C6: once a termination signal has been delivered to a thread suspended in
\* thread_sleep, poll_oneoff or proc_fork, the syscall never returns to the
\* guest, and a guest that is resumed ends with the exit of the signal
C6_SignalEndsSuspension ==
    \A t \in Threads :
        thread[t].sig =>
            /\ ~(thread[t].pc = "guest" /\ ~thread[t].rewinding)
            /\ thread[t].ret = "none"
            /\ /\ thread[t].pc = "done"
               /\ Len(thread[t].log) > 0
               /\ thread[t].log[Len(thread[t].log)][1] = "start"
               => thread[t].exit = "Intr"

C6_Witness ==
    \E t \in Threads :
        /\ thread[t].sig
        /\ Resumed(t)
        /\ thread[t].pc = "done"
        /\ thread[t].exit = "Intr"

\* C7: on every resume from a deep sleep the result callback has run before
\* rewind is invoked and both before the guest entry function is called; when
\* the callback returns an exit code neither of the two is invoked
C7_FinishThenRewindThenStart ==
    \A t \in Threads :
        Resumed(t) =>
            \A i \in 1..Len(thread[t].log) :
                /\ thread[t].log[i][1] = "finish" => i = 2
                /\ thread[t].log[i][1] = "rewind" =>
                       /\ i = 3
                       /\ thread[t].log[2][1] = "finish"
                       /\ thread[t].log[2][3] = "Ok"
                /\ thread[t].log[i][1] = "start" =>
                       /\ i = 4
                       /\ thread[t].log[2][1] = "finish"
                       /\ thread[t].log[3][1] = "rewind"
                       /\ thread[t].log[3][3] = "Success"

C7_Witness ==
    \E t \in Threads \ {MainThread} :
        /\ Resumed(t)
        /\ Len(thread[t].log) = 4
        /\ thread[t].log[4][1] = "start"

\* C8: whenever rewind returns a code other than Success, the guest is not
\* entered afterwards and the process ends with that code, passed to cleanup
\* or carried by the trap that ends the guest run
C8_RewindFailureRecorded ==
    \A t \in Threads :
        \A i \in 1..Len(thread[t].log) :
            thread[t].log[i][1] = "rewind" /\ thread[t].log[i][3] # "Success" =>
                /\ i = Len(thread[t].log)
                /\ thread[t].pc = "done"
                /\ \/ thread[t].exit = thread[t].log[i][3]
                   \/ /\ Len(thread[t].cleanups) > 0
                      /\ thread[t].cleanups[Len(thread[t].cleanups)] = thread[t].log[i][3]

\* C9: on every resume the result callback and rewind run with the address
\* width recorded in the RewindState, and a resume under the other width does
\* not reach the guest
C9_RecordedWidthUsed ==
    \A t \in Threads :
        Resumed(t) =>
            \A i \in 2..Len(thread[t].log) :
                /\ thread[t].log[i][1] \in {"finish", "rewind"} =>
                       thread[t].log[i][2] = Width(thread[t].log[1][2])
                /\ thread[t].log[i][1] = "start" =>
                       thread[t].log[i - 1][2] = Width(thread[t].log[1][2])

\* C10: a guest run that ends in a deep sleep leaves its host task returned
\* and its respawn closure and trigger with the task manager; the guest is
\* entered again only by that respawn closure, once per suspension, and not
\* while the trigger is pending
C10_RespawnedByTaskManager ==
    /\ \A t \in Threads :
           /\ thread[t].pc = "asleep" <=> tasks[t].kind = "poller"
           /\ tasks[t].kind = "poller" =>
                  /\ caps[tasks[t].rewind.rewind_stack[1]].handed
                  /\ caps[tasks[t].rewind.rewind_stack[1]].respawns = 0
                  /\ ~Resumed(t) \/ thread[t].log[Len(thread[t].log)][1] = "start"
           /\ Resumed(t) /\ thread[t].rcap # 0
              /\ caps[thread[t].rcap].origin \in {"sleep", "poll"} =>
                  /\ caps[thread[t].rcap].handed
                  /\ caps[thread[t].rcap].respawns = 1
           /\ thread[t].rewinding /\ caps[thread[t].rcap].origin \in {"sleep", "poll"} =>
                  Resumed(t) /\ caps[thread[t].rcap].respawns = 1
    /\ \A c \in DOMAIN caps : caps[c].respawns <= 1

C10_Witness ==
    \E t \in Threads :
        /\ thread[t].pc = "asleep"
        /\ tasks[t].trigger = "pending"
        /\ \E c \in DOMAIN caps : caps[c].owner = t /\ caps[c].respawns = 1

\* the thread's last syscall is a thread_sleep with a duration above zero
Slept(t) == thread[t].last.name = "sleep" /\ thread[t].last.d > 0

\* C11: thread_sleep(d) with d > 0 suspends with the timeout d on a future that
\* has nothing to become ready on; the suspension is ended only by the timeout
\* or by a signal; ended by the timeout, the guest is resumed no earlier than d
\* and no later than d plus the poll interval after the call, and the call
\* returns Errno::Success
C11_SleepTimeout ==
    \A t \in Threads :
        Slept(t) =>
            /\ tasks[t].kind = "poller" =>
                   /\ tasks[t].timeout = thread[t].last.d
                   /\ tasks[t].joins = <<>>
                   /\ tasks[t].trigger \in {"pending", "timeout", "signal"}
            /\ thread[t].woke.by \in {"none", "timeout", "signal"}
            /\ thread[t].woke.by = "timeout" =>
                   /\ thread[t].woke.after >= thread[t].last.d
                   /\ thread[t].woke.after <= thread[t].last.d + PollInterval
            /\ thread[t].ret # "none" =>
                   /\ thread[t].ret = "Success"
                   /\ thread[t].woke.by = "timeout"

C11_Witness ==
    \E t \in Threads :
        /\ Slept(t)
        /\ thread[t].ret = "Success"
        /\ thread[t].woke.by = "timeout"
        /\ thread[t].woke.after = thread[t].last.d + PollInterval

\* the thread's last syscall is a poll_oneoff whose subscription array and
\* nevents pointer are in guest memory
Polled(t) ==
    /\ thread[t].last.name = "poll"
    /\ thread[t].last.ptrs.in_
    /\ thread[t].last.ptrs.nevents

\* the thread is suspended in a deep sleep
Suspended(t) == tasks[t].kind = "poller"

IsFdSub(s) == s.type \in {"FdRead", "FdWrite"}
IsClockSub(s) == s.type = "Clock"
\* an fd subscription on an open file that lacks the POLL_FD_READWRITE right
Rightless(s) == IsFdSub(s) /\ s.fd \notin StdFds /\ s.fd \in OpenFds /\ ~HasPollRight(s.fd)
\* an fd subscription on an fd that is not open
NotOpen(s) == IsFdSub(s) /\ s.fd \notin StdFds /\ s.fd \notin OpenFds
\* a clock subscription on a clock other than Realtime and Monotonic
OtherClock(s) == IsClockSub(s) /\ s.clock_id \notin {"Realtime", "Monotonic"}

\* the subscriptions of the thread's last poll_oneoff
LastSubs(t) == {thread[t].last.subs[i] : i \in 1..Len(thread[t].last.subs)}

C13_OtherClockInval ==
    \A t \in Threads :
        Polled(t) /\ (\E s \in LastSubs(t) : OtherClock(s)) =>
            /\ thread[t].ret = "Inval"
            /\ thread[t].guards = 0
            /\ ~Suspended(t)
            /\ thread[t].nevents = 0
            /\ thread[t].events = <<>>

\* C13, amended: such a poll_oneoff returns an error without suspending,
\* without a poll guard constructed and without an event written; the error is
\* Errno::Inval unless the list also holds an fd without the right to poll
\* (then it may be Access) or an fd that is not open (then it may be Badf)
C13_OtherClockRefused ==
    \A t \in Threads :
        Polled(t) /\ (\E s \in LastSubs(t) : OtherClock(s)) =>
            /\ thread[t].ret \in {"Inval", "Access", "Badf"}
            /\ thread[t].ret = "Access" => \E s \in LastSubs(t) : Rightless(s)
            /\ thread[t].ret = "Badf" => \E s \in LastSubs(t) : NotOpen(s)
            /\ thread[t].guards = 0
            /\ ~Suspended(t)
            /\ thread[t].nevents = 0
            /\ thread[t].events = <<>>

C13_Witness ==
    \E t \in Threads :
        /\ Polled(t)
        /\ \E s \in LastSubs(t) : OtherClock(s)
        /\ \E s \in LastSubs(t) : IsFdSub(s) /\ ~Rightless(s) /\ ~NotOpen(s)
        /\ thread[t].ret = "Inval"

\* the positions of the clock subscriptions in the array of the last poll
ClockIdx(t) == {i \in 1..Len(thread[t].last.subs) : IsClockSub(thread[t].last.subs[i])}

\* the wait a clock subscription asks for: none for the timeout 0, zero for
\* the timeout 1, else its timeout
RequestedWait(s) ==
    CASE s.timeout = 0 -> DurationMAX
      [] s.timeout = 1 -> 0
      [] OTHER -> s.timeout

\* the earliest wait among the clock subscriptions of the last poll
EarliestWait(t) ==
    IF ClockIdx(t) = {} THEN DurationMAX
    ELSE LET W == {RequestedWait(thread[t].last.subs[i]) : i \in ClockIdx(t)}
         IN CHOOSE m \in W : \A x \in W : m <= x

\* the clock subscriptions of the last poll have ordinary timeouts (none of
\* the two special values) and no two of them share clock id and userdata
PlainClocks(t) ==
    /\ \A i \in ClockIdx(t) : thread[t].last.subs[i].timeout \notin {0, 1}
    /\ \A i, j \in ClockIdx(t) :
          i # j => \/ thread[t].last.subs[i].clock_id # thread[t].last.subs[j].clock_id
                   \/ thread[t].last.subs[i].userdata # thread[t].last.subs[j].userdata

\* C14: the timeout a poll_oneoff suspends with is the earliest wait among the
\* clock subscriptions of the call (none when there is no clock subscription),
\* whatever the order the subscriptions are processed in; stated for calls
\* whose clock subscriptions have ordinary timeouts and are all kept
C14_EarliestTimeout ==
    \A t \in Threads :
        Polled(t) /\ Suspended(t) /\ PlainClocks(t) =>
            tasks[t].timeout = IF EarliestWait(t) = DurationMAX THEN NoDuration
                               ELSE EarliestWait(t)

\* C15: a poll_oneoff whose only clock subscription has the timeout 1 suspends
\* with a zero timeout, one whose only clock subscription has the timeout 0
\* suspends with no timeout, and a clock subscription with one of these two
\* timeouts is never among the clock subscriptions kept for the expiry events
C15_SentinelWaits ==
    \A t \in Threads :
        Polled(t) /\ Suspended(t) =>
            /\ \A i \in ClockIdx(t) :
                  ClockIdx(t) = {i} =>
                     /\ thread[t].last.subs[i].timeout = 1 => tasks[t].timeout = 0
                     /\ thread[t].last.subs[i].timeout = 0 => tasks[t].timeout = NoDuration
            /\ \A k \in 1..Len(tasks[t].rewind.after.clock_subs) :
                  tasks[t].rewind.after.clock_subs[k].timeout \notin {0, 1}

C15_Witness ==
    \E t \in Threads :
        /\ Polled(t)
        /\ Suspended(t)
        /\ \E i \in ClockIdx(t) : ClockIdx(t) = {i} /\ thread[t].last.subs[i].timeout = 1
        /\ \E s \in LastSubs(t) : IsFdSub(s)
        /\ tasks[t].timeout = 0

\* every subscription of the last poll passes its check
ValidSubs(t) == \A s \in LastSubs(t) : ~Rightless(s) /\ ~NotOpen(s) /\ ~OtherClock(s)

\* the last poll asks for a zero wait: its only clock subscription has the
\* timeout 1, the value for an immediate poll
ZeroWait(t) ==
    /\ Polled(t)
    /\ ValidSubs(t)
    /\ \E i \in ClockIdx(t) : ClockIdx(t) = {i} /\ thread[t].last.subs[i].timeout = 1

PollResumes(t, result) ==
    /\ Suspended(t)
    /\ tasks[t].trigger = result
    /\ thread[t].last.name = "poll"
    /\ ~Suspended(t)'
    /\ thread'[t].pc = "guest"

\* C17: a zero-wait poll_oneoff that found no fd ready writes 0 to nevents and
\* no event, not even for the clock subscriptions it keeps for the expiry
\* events, and the call returns Errno::Success
C17_EmptyListNotError ==
    /\ [](\A t \in Threads :
             Polled(t) /\ thread[t].woke.by = "again" =>
                 /\ thread[t].nevents = 0
                 /\ thread[t].ret \in {"none", "Success"})
    /\ [][\A t \in Threads :
             PollResumes(t, "again") =>
                 /\ thread'[t].events = thread[t].events
                 /\ thread'[t].nevents = 0]_vars

C17_Witness ==
    \E t \in Threads :
        /\ Polled(t)
        /\ thread[t].last.ptrs.out_
        /\ thread[t].woke.by = "again"
        /\ \E s \in LastSubs(t) : IsClockSub(s) /\ s.timeout \notin {0, 1}
        /\ thread[t].ret = "Success"
        /\ thread[t].nevents = 0
        /\ thread[t].events = <<>>

\* the events the resumed call has written at out_
Written(t) == SubSeq(thread[t].events, 1, thread[t].nevents)

\* C18: the clock subscriptions a poll_oneoff keeps never hold two entries with
\* the same clock id and userdata, and on a timeout one clock event is written
\* for each entry kept
C18_ClocksDeduplicated ==
    /\ [](\A t \in Threads :
             Polled(t) /\ Suspended(t) =>
                 LET cs == tasks[t].rewind.after.clock_subs
                 IN \A i, j \in 1..Len(cs) :
                        cs[i].clock_id = cs[j].clock_id /\ cs[i].userdata = cs[j].userdata
                            => i = j)
    /\ [][\A t \in Threads :
             PollResumes(t, "timeout") /\ thread[t].last.ptrs.out_ =>
                 LET cs == tasks[t].rewind.after.clock_subs
                 IN /\ thread'[t].nevents = Len(cs)
                    /\ \A k \in 1..Len(cs) :
                          /\ thread'[t].events[k].type = "Clock"
                          /\ thread'[t].events[k].userdata = cs[k].userdata]_vars

C18_Witness ==
    \E t \in Threads :
        /\ Polled(t)
        /\ thread[t].last.ptrs.out_
        /\ thread[t].woke.by = "timeout"
        /\ thread[t].rewinding
        /\ \E i, j \in ClockIdx(t) :
              /\ i # j
              /\ thread[t].last.subs[i].clock_id = thread[t].last.subs[j].clock_id
              /\ thread[t].last.subs[i].userdata = thread[t].last.subs[j].userdata
              /\ thread[t].last.subs[i].timeout \notin {0, 1}
              /\ thread[t].last.subs[j].timeout \notin {0, 1}
        /\ thread[t].nevents = 1

\* C19: when a poll_oneoff wait has timed out, the events written are one
\* Clock event, with error Success and the subscription's userdata, for each
\* clock subscription whose timeout is the earliest of the call, and no other
\* event; stated for calls whose clock subscriptions have ordinary timeouts
\* and differ in userdata
C19_EarliestClockEvents ==
    \A t \in Threads :
        /\ Polled(t)
        /\ thread[t].last.ptrs.out_
        /\ PlainClocks(t)
        /\ thread[t].woke.by = "timeout"
        /\ thread[t].rewinding
        => /\ \A k \in 1..Len(Written(t)) :
                 /\ Written(t)[k].type = "Clock"
                 /\ Written(t)[k].error = "Success"
           /\ \A i \in ClockIdx(t) :
                 (\E k \in 1..Len(Written(t)) :
                     Written(t)[k].userdata = thread[t].last.subs[i].userdata)
                 <=> RequestedWait(thread[t].last.subs[i]) = EarliestWait(t)
           /\ Len(Written(t)) =
                 Cardinality({i \in ClockIdx(t) :
                                 RequestedWait(thread[t].last.subs[i]) = EarliestWait(t)})

\* the positions of the guards of the batch that are ready in the poll step
ReadyIdx(t) == {i \in 1..Len(tasks[t].joins) : tasks[t].joins[i].fd \in tasks[t].ready}

\* C20: a step of PollBatch::poll that resolves Ready found at least one guard
\* ready and returns one event for each guard that is ready in the step, so
\* never an empty list
C20_BatchCollectsAllReady ==
    \A t \in Threads :
        Suspended(t) /\ tasks[t].trigger = "ready" =>
            /\ ReadyIdx(t) # {}
            /\ tasks[t].evts # <<>>
            /\ Len(tasks[t].evts) = Cardinality(ReadyIdx(t))
            /\ \A i \in ReadyIdx(t) :
                  \E k \in 1..Len(tasks[t].evts) :
                      /\ tasks[t].evts[k].userdata = tasks[t].joins[i].s.userdata
                      /\ tasks[t].evts[k].type = tasks[t].joins[i].s.type

C20_Witness ==
    \E t \in Threads :
        /\ Suspended(t)
        /\ tasks[t].trigger = "ready"
        /\ Cardinality(ReadyIdx(t)) = 2
        /\ Len(tasks[t].evts) = 2

\* the events of the guards of joins on the fds of order, fd by fd in the
\* order of the sequence
RECURSIVE EventsInOrder(_, _)
EventsInOrder(joins, order) ==
    IF order = <<>> THEN <<>>
    ELSE PollBatch_poll(joins, {Head(order)}) \o EventsInOrder(joins, Tail(order))

\* the step in which a poll_oneoff that was suspended is resumed by fds that
\* are ready: its callback has run and the guest is rewound
ResumedByReady(t) ==
    /\ Polled(t) /\ Suspended(t)
    /\ tasks[t].trigger = "ready"
    /\ thread[t].last.ptrs.out_
    /\ thread'[t].woke.by = "ready"
    /\ thread'[t].pc = "guest"
    /\ thread'[t].rewinding

\* C21: when a poll_oneoff is resumed by fds that are ready, the events
\* written to the output buffer are those of the ready fds in the order in
\* which the fds became ready
C21_EventsInReadyOrder ==
    [][\A t \in Threads :
          ResumedByReady(t) =>
              LET evts == EventsInOrder(tasks[t].joins, tasks[t].order)
              IN SubSeq(thread'[t].events, 1, Len(evts)) = evts]_vars

\* a poll_oneoff of the guest has returned to the guest
PollReturned(t) ==
    /\ thread[t].last.name = "poll"
    /\ thread[t].pc = "guest"
    /\ ~thread[t].rewinding
    /\ thread[t].ret # "none"

\* C22: a poll_oneoff call of the guest that has returned has advanced
\* poll_seed by exactly one, whether or not it suspended and was re-entered
C22_SeedAdvancesByOne ==
    \A t \in Threads :
        PollReturned(t) => thread[t].poll_seed = thread[t].seed0 + 1

\* how many elements of the sequence q are x
Count(q, x) == Cardinality({i \in 1..Len(q) : q[i] = x})

\* the subscriptions of the guards of the batch of a suspended poll_oneoff
BatchSubs(t) == [j \in 1..Len(tasks[t].joins) |-> tasks[t].joins[j].s]

\* C23: every file-descriptor subscription of a poll_oneoff that suspended
\* has its guard in the batch of that very call, once for each time it is in
\* the array, and the batch holds nothing else; this holds for the first call
\* and for every repetition, whatever the value of poll_seed, so no
\* subscription waits for a later call to be checked
C23_EverySubscriptionInBatch ==
    \A t \in Threads :
        Polled(t) /\ Suspended(t) =>
            /\ \A i \in 1..Len(thread[t].last.subs) :
                   IsFdSub(thread[t].last.subs[i]) =>
                       Count(BatchSubs(t), thread[t].last.subs[i]) = Count(thread[t].last.subs, thread[t].last.subs[i])
            /\ \A j \in 1..Len(BatchSubs(t)) :
                   /\ IsFdSub(BatchSubs(t)[j])
                   /\ Count(thread[t].last.subs, BatchSubs(t)[j]) > 0

\* a repeated poll_oneoff on two different fds is suspended with both guards
\* in its batch
C23_Witness ==
    \E t \in Threads :
        /\ Polled(t) /\ Suspended(t)
        /\ thread[t].seed0 > 0
        /\ Len(tasks[t].joins) = 2
        /\ tasks[t].joins[1].fd # tasks[t].joins[2].fd
        /\ tasks[t].trigger = "pending"

\* the step returns a syscall of thread t to the guest with an error code
ErrorReturn(t) ==
    /\ thread[t].pc = "guest"
    /\ thread'[t].pc = "guest"
    /\ thread'[t].gpc = thread[t].gpc + 1
    /\ thread'[t].ret \notin {"none", "Success"}

\* C24: a poll_oneoff or proc_fork that returns an error code other than
\* Success leaves the guest memory as it was before the call: the pid slot,
\* the nevents cell and the event buffer are unchanged
C24_ErrorLeavesMemory ==
    [][\A t \in Threads :
          ErrorReturn(t) =>
              /\ mem'[t] = mem[t]
              /\ thread'[t].nevents = thread[t].nevents
              /\ thread'[t].events = thread[t].events]_vars

\* the children lists hold each child once, in the list of one process only,
\* never the process itself, and only pids that were given out
ChildrenDistinct ==
    \A p \in Threads :
        /\ \A i \in 1..Len(children[p]) :
               /\ children[p][i] # p
               /\ children[p][i] \in 2..nproc
               /\ Count(children[p], children[p][i]) = 1
        /\ \A q \in Threads \ {p} : Range(children[p]) \cap Range(children[q]) = {}

\* a children list changes only by the append of the new pid, in the step
\* in which a thread that runs the process enters a new syscall, not in a
\* re-entry during a rewind
ChildrenAppended ==
    \A p \in Threads :
        children'[p] # children[p] =>
            /\ nproc' = nproc + 1
            /\ children'[p] = Append(children[p], nproc')
            /\ ncalls' = ncalls + 1
            /\ \E t \in Threads :
                   thread[t].cur = p /\ thread[t].pc = "guest" /\ ~thread[t].rewinding

\* a step that gives out a pid appends it to exactly one children list
ForkAppends ==
    nproc' # nproc =>
        \E p \in Threads :
            /\ children'[p] = Append(children[p], nproc')
            /\ \A q \in Threads \ {p} : children'[q] = children[q]

VForks == {k \in Threads : /\ forks[k].parent # 0 /\ ~forks[k].copy /\ forks[k].cap # 0
                           /\ thread[forks[k].parent].forking.child # k}
LatestVFork(k) ==
    /\ k \in VForks
    /\ \A j \in Threads : forks[j].parent = forks[k].parent => j <= k

\* what holds after a proc_fork with copy_memory = false has unwound
VForkInPlace ==
    \A k \in VForks :
        LET t == forks[k].parent
        IN /\ ~forks[k].spawned
           /\ tasks[k].kind = "none"
           /\ thread[k].pc = "none"
           /\ mem[k] = InitMem
           /\ forks[k].pmem = <<>> /\ forks[k].tmem = <<>>
           /\ forks[k].cret = "Success" => forks[k].cobs = 0
           /\ forks[k].pret = "none"
           /\ LatestVFork(k) =>
                  /\ thread[t].cur = k
                  /\ vfork[t].set
                  /\ vfork[t].env \in Threads \ {k}
                  /\ vfork[t].rewind.memory_stack = forks[k].captured
                  /\ vfork[t].rewind.rewind_stack = forks[k].crstack
                  /\ vfork[t].rewind.store_data = forks[k].cstore
                  /\ vfork[t].pid_offset = forks[k].off
                  /\ thread[t].rewinding /\ thread[t].rcap = forks[k].cap =>
                         /\ thread[t].sp = forks[k].cstore[1]
                         /\ get_memory_stack(World, t) = forks[k].captured

\* the step in which a thread records a vfork: the environment it ran is
\* kept in the record and the new pid becomes the running one, the stack
\* it is rewound to is the recorded one, no task is added and nothing of
\* another thread changes
VForkStep ==
    \A t \in Threads :
        vfork'[t] # vfork[t] /\ vfork'[t].set =>
            /\ vfork'[t].env = thread[t].cur
            /\ thread'[t].cur = thread[t].forking.child
            /\ forks[thread'[t].cur].parent = t
            /\ nproc' = nproc
            /\ thread'[t].rewinding =>
                   vfork'[t].rewind.memory_stack =
                       ReadBytes(mem'[t], thread'[t].sp, StackUpper - thread'[t].sp)
            /\ vfork'[t].rewind.store_data = capture_snapshot(World, t)
            /\ tasks' = tasks
            /\ \A c \in Threads \ {t} : mem'[c] = mem[c] /\ thread'[c] = thread[c]

\* C26: a proc_fork with copy_memory = false spawns no task and copies no
\* memory; the thread runs on as the child environment, vfork holds the
\* environment of the parent with the captured memory stack, rewind stack,
\* snapshot and pid offset, the thread is rewound in place to the captured
\* stack as it was captured, and the guest is returned to as the child and
\* reads pid 0
C26_VForkInPlace ==
    /\ []VForkInPlace
    /\ [][VForkStep]_vars

\* a proc_fork with copy_memory = false whose pid slot is on the captured
\* stack has returned to the guest, which read pid 0
C26_Witness ==
    \E k \in VForks :
        /\ LatestVFork(k)
        /\ forks[k].cret = "Success"
        /\ forks[k].cobs = 0
        /\ pid_in_stack(forks[k].off)
        /\ pid_in_active(forks[k].off, forks[k].captured)
        /\ thread[forks[k].parent].pc = "guest"
        /\ thread[forks[k].parent].ret = "Success"
        /\ ~thread[forks[k].parent].rewinding

\* what get_export gives for the key k of imports1 in the variant api
Exported(k, api) == get_export(imports1, k[1], k[2], api)

\* get_export on the Imports as it is: a key that was never inserted gives
\* None; after register_namespace every entry of the contents is found under
\* the namespace with its extern; a call of get_export returned the extern
\* under its key, or None for a key never inserted
ExportsAsRegistered ==
    /\ \A k \in Keys \ registered, api \in Apis : ~Exported(k, api).some
    /\ iret.op = "register_namespace" =>
           \A i \in 1..Len(iret.contents), api \in Apis :
               LET e == Exported(<<iret.ns, iret.contents[i][1]>>, api)
               IN e.some /\ e.val = handed_out(api, iret.contents[i][2])
    /\ iret.op = "get_export" =>
           IF <<iret.ns, iret.name>> \in registered
           THEN /\ iret.opt.some
                /\ iret.opt.val = handed_out(iret.api, imports1[<<iret.ns, iret.name>>])
           ELSE ~iret.opt.some

\* C27: after a namespace is registered with a set of (name, extern)
\* entries, get_export of the namespace and the name of each entry returns
\* the extern of the entry, and get_export returns None for every pair that
\* was never registered or defined; get_export changes nothing
C27_GetExportAfterRegister ==
    /\ []ExportsAsRegistered
    /\ [][iret'.op = "get_export" => imports1' = imports1]_vars

\* a namespace was registered with two entries while a name of the other
\* namespace was never inserted
C27_Witness ==
    /\ iret.op = "register_namespace"
    /\ Len(iret.contents) = 2
    /\ \E k \in Keys \ registered : k[1] # iret.ns /\ k[2] = iret.contents[1][1]

\* C28: extend merges key by key: afterwards a key of the other Imports
\* holds the extern of the other, every other key holds what it held before,
\* so that the names a namespace had before stay next to the ones brought
C28_ExtendMergesByKey ==
    [][iret'.op = "extend" =>
          \A k \in Keys :
              imports1'[k] = IF contains_key(iret'.other, k) THEN iret'.other[k]
                             ELSE imports1[k]]_vars

\* an extend brought a name into a namespace that keeps a name only the
\* extended Imports had
C28_Witness ==
    /\ iret.op = "extend"
    /\ \E ns \in Namespaces, n1, n2 \in Names :
           /\ n1 # n2
           /\ contains_key(iret.other, <<ns, n2>>)
           /\ ~contains_key(iret.other, <<ns, n1>>)
           /\ contains_key(imports1, <<ns, n1>>)
           /\ imports1[<<ns, n2>>] = iret.other[<<ns, n2>>]

\* the positions of the imports of the last imports_for_module that are
\* missing from the map
Missing == {i \in 1..Len(iret.module) : ~contains_key(imports1, iret.module[i])}

\* what imports_for_module returned for the module and the map
ResolvedInOrder ==
    iret.op = "imports_for_module" =>
        IF Missing = {}
        THEN /\ iret.res.ok
             /\ Len(iret.res.ret) = Len(iret.module)
             /\ \A i \in 1..Len(iret.module) :
                    iret.res.ret[i] = handed_out(iret.api, imports1[iret.module[i]])
        ELSE /\ ~iret.res.ok
             /\ iret.res.ret = <<>>
             /\ \E i \in Missing :
                    /\ \A j \in Missing : i <= j
                    /\ iret.res.err = iret.module[i]

\* C29: imports_for_module returns one extern for each import of the module
\* in the order of the declaration, or the LinkError::Import of the first
\* import in that order that the map lacks and nothing else; the Imports is
\* left as it was
C29_ImportsForModuleInOrder ==
    /\ []ResolvedInOrder
    /\ [][iret'.op = "imports_for_module" => imports1' = imports1]_vars

\* imports_for_module failed for a module whose two imports are both missing
\* from a map that is not empty: the error names the first
C29_Witness ==
    /\ iret.op = "imports_for_module"
    /\ Len(iret.module) = 2
    /\ Missing = {1, 2}
    /\ iret.module[1] # iret.module[2]
    /\ iret.res.err = iret.module[1]
    /\ \E k \in Keys : contains_key(imports1, k)

\* the step in which the rewound guest of thread t enters its suspended
\* poll_oneoff again and the call returns to the guest
PollReentered(t) ==
    /\ thread[t].pc = "guest"
    /\ thread[t].rewinding
    /\ thread[t].call.name = "poll"
    /\ thread'[t].pc = "guest"
    /\ ~thread'[t].rewinding

\* C30: the nevents value and the event records that the completion callback
\* of a suspended poll_oneoff wrote are what the guest finds when the call
\* returns: the re-entry of the syscall during the rewind does not alter them
C30_CallbackOutputsKept ==
    [][\A t \in Threads :
          PollReentered(t) =>
              /\ thread'[t].nevents = thread[t].nevents
              /\ thread'[t].events = thread[t].events]_vars

ForkReentered(t) ==
    /\ thread[t].pc = "guest"
    /\ thread[t].rewinding
    /\ thread[t].call.name = "fork"
    /\ ~thread[t].sig
    /\ ~thread'[t].rewinding

\* C32: the re-entry of proc_fork during a rewind returns Errno::Success to
\* the guest and does nothing else: no pid is given out, no children list
\* grows, no byte of any guest memory is written, no task is handed to the
\* task manager and nothing is captured; so a guest-level call of proc_fork
\* creates at most one child
C32_ReentryForksNothing ==
    [][\A t \in Threads :
          ForkReentered(t) =>
              /\ thread'[t].pc = "guest"
              /\ thread'[t].ret = "Success"
              /\ thread'[t].gpc = thread[t].gpc + 1
              /\ nproc' = nproc
              /\ children' = children
              /\ mem' = mem
              /\ tasks' = tasks
              /\ caps' = caps
              /\ vfork' = vfork
              /\ \A k \in Threads :
                     /\ forks'[k].parent = forks[k].parent
                     /\ forks'[k].spawned = forks[k].spawned
                     /\ forks'[k].cap = forks[k].cap]_vars

\* the parent and the child of a copying fork have both entered proc_fork
\* again and returned from it, and one pid was given out
C32_Witness ==
    \E k \in CopyForks :
        /\ forks[k].pret = "Success" /\ forks[k].cret = "Success"
        /\ forks[k].ppoint = forks[k].point /\ forks[k].cpoint = forks[k].point
        /\ nproc = 2
        /\ children[forks[k].parent] = <<k>>

\* the step in which thread t calls proc_fork and the call returns
\* Errno::Perm to the guest
ForkRefused(t) ==
    /\ thread[t].pc = "guest" /\ ~thread[t].rewinding
    /\ ncalls' = ncalls + 1
    /\ thread'[t] # thread[t]
    /\ thread'[t].last.name = "fork"
    /\ thread'[t].ret = "Perm"

\* C33: a proc_fork that returns Errno::Perm, as it does when the environment
\* cannot be forked, has given out no pid, left every children list and every
\* byte of guest memory (the pid slot included) as they were, captured
\* nothing and handed no task to the task manager; the guest runs on
C33_PermChangesNothing ==
    [][\A t \in Threads :
          ForkRefused(t) =>
              /\ thread'[t].pc = "guest"
              /\ ~thread'[t].rewinding
              /\ thread'[t].gpc = thread[t].gpc + 1
              /\ nproc' = nproc
              /\ children' = children
              /\ mem' = mem
              /\ tasks' = tasks
              /\ caps' = caps
              /\ vfork' = vfork
              /\ forks' = forks]_vars

\* a proc_fork whose pid slot is writable memory has returned Errno::Perm
C33_Witness ==
    \E t \in Threads :
        /\ thread[t].pc = "guest"
        /\ thread[t].last.name = "fork"
        /\ thread[t].last.off + PidBytes <= MemSize
        /\ thread[t].ret = "Perm"
        /\ nproc = 1
        /\ ncalls = 1

\* the poll_oneoff of thread t suspended, was resumed and has returned, and
\* either its batch resolved with an error other than Timedout and Again or
\* the event buffer out_ could not be written
PollFailed(t) ==
    /\ PollReturned(t)
    /\ thread[t].woke.by # "none"
    /\ \/ thread[t].woke.by \notin {"ready", "timeout", "again"}
       \/ ~thread[t].last.ptrs.out_

\* C34: a poll_oneoff whose awaited batch failed with an error other than
\* Timedout and Again, or whose events could not be written to out_, returns
\* an error code to the guest, not Errno::Success
C34_PollFailureReported ==
    \A t \in Threads : PollFailed(t) => thread[t].ret # "Success"

\* C35: a host task that has returned without a deep sleep has invoked
\* cleanup exactly once, a forked child's with the exit code its guest ended
\* with; a thread whose guest runs or that is suspended in a deep sleep has
\* had no cleanup and its handle is held by the running task or by the
\* respawn closure; the handle of a forked child is dropped after the one
\* cleanup
C35_CleanupOncePerRun ==
    \A t \in Threads :
        /\ thread[t].pc = "done" =>
               /\ Len(thread[t].cleanups) = 1
               /\ t # MainThread /\ thread[t].exit # "none" =>
                      thread[t].cleanups[1] = thread[t].exit
        /\ thread[t].pc = "guest" =>
               thread[t].cleanups = <<>> /\ thread[t].handle = "run"
        /\ thread[t].pc = "asleep" =>
               thread[t].cleanups = <<>> /\ thread[t].handle = "respawn"
        /\ t # MainThread /\ thread[t].handle = "dropped" /\ thread[t].pc = "done" =>
               thread[t].hclean = 1

\* C36: when the guest that call_module ran ended with WasiError::Exit(code),
\* the code given to cleanup is the code recorded in the Finished status, and
\* it is Success exactly when code is
C36_ExitCodeAgrees ==
    LET th == thread[MainThread]
    IN th.pc = "done" /\ th.exit # "none" =>
           /\ th.status = "Finished"
           /\ Len(th.cleanups) = 1 /\ Len(th.finished) = 1
           /\ th.finished[1][1] = "Ok"
           /\ th.cleanups[1] = th.finished[1][2]
           /\ th.cleanups[1] = "Success" <=> th.exit = "Success"

SpawnErrors == {"NotFound", "CompileError", "UnknownError"}

\* C37: an entry point of the spawn path that returned an error has cleaned
\* up the environment exactly once, with a code other than Success, and has
\* launched no task; one that returned Ok has launched the task and made no
\* cleanup by itself; a module that could not be saved to the cache is
\* launched all the same
C37_SpawnErrorCleansUp ==
    LET th == thread[MainThread]
    IN /\ th.spawn.res \in SpawnErrors =>
              /\ Len(th.cleanups) = 1
              /\ th.cleanups[1] # "Success"
              /\ tasks[MainThread].kind = "none"
       /\ th.pc = "spawned" =>
              /\ th.spawn.res = "Ok"
              /\ th.cleanups = <<>>
              /\ tasks[MainThread].kind = "wasm"
       /\ th.spawn.cache = "unsaved" => th.spawn.res \in {"Ok", "UnknownError"}

\* C38: a copy-mode proc_fork that trapped with Memviolation because the pid
\* slot is not on the captured stack has handed no child task to the task
\* manager and has not left the child in a children list
C38_TrappedForkLeavesNothing ==
    \A k \in CopyForks :
        forks[k].outcome = "trap" =>
            /\ ~forks[k].spawned
            /\ tasks[k].kind = "none"
            /\ thread[k].pc = "none"
            /\ \A p \in Threads : k \notin Range(children[p])

\* C39: whenever the pid is patched into the captured memory stack, neither
\* stack_upper - pid_offset nor length - offset went below zero and the four
\* bytes written, [pstart, pstart + 4), lie inside the memory stack; the slice
\* of the memory stack never fails
C39_PatchInsideStack ==
    /\ patch.out = "patched" =>
           /\ patch.stack_upper - patch.pid_offset >= 0
           /\ patch.r.offset = patch.stack_upper - patch.pid_offset
           /\ patch.len - patch.r.offset >= 0
           /\ patch.r.pstart = patch.len - patch.r.offset
           /\ patch.r.pstart >= 0
           /\ patch.r.pend = patch.r.pstart + PidBytes
           /\ patch.r.pend <= patch.len
    /\ patch.out # "panic"

\* a pid was patched into the lowest four bytes of a memory stack that is
\* longer than the slot
C39_Witness ==
    /\ patch.out = "patched"
    /\ patch.r.pstart = 0
    /\ patch.len > PidBytes
    /\ patch.stack_lower < patch.pid_offset

====
